---- MODULE Spec2Model ----
(***************************************************************************)
(* Model of the import_MT batch scripts: the theme metrics injector         *)
(* (scripts/build_freeze.py), the fragment mergers                          *)
(* (sccripts/ and scripts/build_master_from_fragments.py), the valuation    *)
(* and returns cache updaters (scripts/update_valuation_*.py,               *)
(* scripts/update_return_fmp.py), build_freeze's main loop and the file     *)
(* writers.                                                                 *)
(*                                                                          *)
(* The scripts are independent one-shot programs.  Each has its own         *)
(* variables and its own specification; a specification leaves the          *)
(* variables of the other scripts at their idle values.                     *)
(***************************************************************************)
EXTENDS Integers, Sequences, FiniteSets, TLC

VARIABLES
    themeFile,   \* build_freeze: the nodes of the theme JSON file on disk
    caches,      \* build_freeze: the four cache maps handed to the injector
    injLast,     \* build_freeze: what the last inject_metrics_into_theme run returned/did
    injSame,     \* build_freeze: TRUE when the caches were not reloaded since the last run
    injLoads,    \* build_freeze: how many times a cache file was rewritten so far
    frags,       \* fragment mergers: fragment directory -> its asset.csv (or no file)
    discovered,  \* fragment mergers: the order in which the file system lists the directories
    masterA,     \* sccripts/build_master_from_fragments.py: what build_one_master returned
    masterB,     \* scripts/build_master_from_fragments.py: what merge_master returned
    fEnv,        \* cache updaters: which script runs, FMP_API_KEY, the SSOT file, the cache before the run
    fCache,      \* cache updaters: the output cache file on disk
    fRun,        \* cache updaters: the position and the locals of main()
    zEnv,        \* build_freeze main: index.json and the caches
    zFiles,      \* build_freeze main: the theme files on disk
    zRun,        \* build_freeze main: the position and the locals of main()
    wEnv,        \* writers: which writer runs, the old and the new content
    wDisk,       \* writers: the target file and the temporary file on disk
    wRun,        \* writers: the position of the writing process
    calcIn,      \* calculators: which function is called, and its arguments
    calcOut,     \* calculators: what the call returned
    vIn,         \* theme readers: the theme files, the masters and the options of a run
    vOut,        \* theme readers: the messages, the counts and the exit code of a run
    uTheme,      \* update_theme_metrics: the theme JSON file on disk
    uRun         \* update_theme_metrics: the answers of the sources and the locals of the last run

injVars == <<themeFile, caches, injLast, injSame, injLoads>>
mergeVars == <<frags, discovered, masterA, masterB>>
fetchVars == <<fEnv, fCache, fRun>>
freezeVars == <<zEnv, zFiles, zRun>>
writeVars == <<wEnv, wDisk, wRun>>
calcVars == <<calcIn, calcOut>>
validVars == <<vIn, vOut>>
updVars == <<uTheme, uRun>>

vars == <<injVars, mergeVars, fetchVars, freezeVars, writeVars, calcVars, validVars, updVars>>

(***************************************************************************)
(* Bounds of the model                                                      *)
(***************************************************************************)
\* numeric JSON values range over 0..MaxVal
MaxVal == 1
\* a behaviour rewrites a cache file at most MaxLoads times
MaxLoads == 2
\* a file's text reaches the disk in at most MaxChunks pieces
MaxChunks == 2
\* a price series is up to MaxExtra points longer than a horizon's offset
MaxExtra == 1

(***************************************************************************)
(* JSON values.  A value is null, a number or a string; one record shape    *)
(* carries the three so that Python's == is TLA+ equality.                  *)
(***************************************************************************)
Null == [t |-> "null", n |-> 0, s |-> ""]
Num(k) == [t |-> "num", n |-> k, s |-> ""]
Str(x) == [t |-> "str", n |-> 0, s |-> x]

NumVals == {Num(k) : k \in 0..MaxVal}

\* str.strip() on the strings of the model: " " is the whitespace-only string
Strip(x) == IF x = " " THEN "" ELSE x

\* str.upper() on the country strings of the model
Upper(x) == IF x = "kr" THEN "KR" ELSE IF x = "us" THEN "US" ELSE x

EmptyMap == [k \in {} |-> Null]

\* dict.get(key): None when the key is absent
Get(m, k) == IF k \in DOMAIN m THEN m[k] ELSE Null

\* metrics[key] = value
Put(m, k, v) == [x \in (DOMAIN m) \cup {k} |-> IF x = k THEN v ELSE m[x]]

RETURN_KEYS == <<"return_3d", "return_7d", "return_1m", "return_ytd", "return_1y", "return_3y">>
VAL_KEYS == <<"close", "marketCap", "pe_ttm", "valuationAsOf", "valuationSource">>
RET_META_KEYS == <<"returnsAsOf", "returnsSource">>

Range(q) == {q[i] : i \in 1..Len(q)}

(***************************************************************************)
(* Tickers are strings of characters; a character is a digit 0..9 or the    *)
(* letter code 10.                                                          *)
(***************************************************************************)
RECURSIVE Zeros(_)
Zeros(k) == IF k <= 0 THEN <<>> ELSE <<0>> \o Zeros(k - 1)

\* str.zfill(6)
zfill6(t) == Zeros(6 - Len(t)) \o t

\* re.fullmatch(r"\d{6}", t)
_is_valid_kr_ticker(t) == Len(t) = 6 /\ \A i \in 1..Len(t) : t[i] \in 0..9

\* value not in (None, 0, 0.0)
NotNullOrZero(v) == ~(v = Null \/ (v.t = "num" /\ v.n = 0))

_is_meaningful_valuation(val) ==
    \/ NotNullOrZero(Get(val, "close"))
    \/ NotNullOrZero(Get(val, "marketCap"))
    \/ NotNullOrZero(Get(val, "pe_ttm"))

\* a faulty variant: the None guard is dropped
set_if_meaningful_no_null_guard(metrics, key, value) ==
    IF value.t = "str" /\ Strip(value.s) = "" THEN [m |-> metrics, ch |-> FALSE]
    ELSE IF Get(metrics, key) = value THEN [m |-> metrics, ch |-> FALSE]
    ELSE [m |-> Put(metrics, key, value), ch |-> TRUE]

\* returns the metrics after the call and the boolean the call returns
_set_if_meaningful(metrics, key, value) ==
    IF value = Null THEN [m |-> metrics, ch |-> FALSE]
    ELSE IF value.t = "str" /\ Strip(value.s) = "" THEN [m |-> metrics, ch |-> FALSE]
    ELSE IF Get(metrics, key) = value THEN [m |-> metrics, ch |-> FALSE]
    ELSE [m |-> Put(metrics, key, value), ch |-> TRUE]

\* [if k in rec:] changed_any = _set_if_meaningful(metrics, k, rec.get(k)) or changed_any
SetKey(acc, k, rec, onlyPresent) ==
    IF onlyPresent /\ k \notin DOMAIN rec THEN acc
    ELSE LET r == _set_if_meaningful(acc.m, k, Get(rec, k))
         IN [m |-> r.m, ch |-> r.ch \/ acc.ch]

\* for k in keys: the body above (each iteration's result is bound as a value)
RECURSIVE SetKeys(_, _, _, _, _)
SetKeys(acc, keys, i, rec, onlyPresent) ==
    IF i > Len(keys) THEN acc
    ELSE CHOOSE out \in {SetKeys(a, keys, i + 1, rec, onlyPresent) :
                            a \in {SetKey(acc, keys[i], rec, onlyPresent)}} : TRUE

\* for rk in RETURN_KEYS: if rk not in metrics: metrics[rk] = None
RECURSIVE AddMissingReturnKeys(_, _)
AddMissingReturnKeys(m, i) ==
    IF i > Len(RETURN_KEYS) THEN m
    ELSE AddMissingReturnKeys(
           IF RETURN_KEYS[i] \in DOMAIN m THEN m ELSE Put(m, RETURN_KEYS[i], Null), i + 1)

\* returns the node after the call and whether its structure changed
_ensure_asset_metrics_shape(node) ==
    LET m0 == IF node.isDict THEN node.metrics ELSE EmptyMap
        m1 == AddMissingReturnKeys(m0, 1)
    IN [node |-> [node EXCEPT !.isDict = TRUE, !.metrics = m1],
        changed |-> (~node.isDict) \/ (m1 # m0)]

\* dict.get(key) followed by a truth test: a missing record and an empty one are both falsy
Lookup(map, key) == IF key \in DOMAIN map THEN map[key] ELSE EmptyMap
Truthy(rec) == DOMAIN rec # {}

\* (node.get("id") or "").strip() raises AttributeError on a non-empty non-string id
IdRaises(id) == id.t = "num" /\ id.n # 0
IdText(id) == IF id.t = "str" THEN Strip(id.s) ELSE ""

\* KR: the valuation stage (lines 408-415), keyed by the zero-padded ticker
StageKrVal(s, isKr, val) ==
    IF isKr /\ Truthy(val) /\ _is_meaningful_valuation(val)
    THEN SetKeys(s, VAL_KEYS, 1, val, TRUE) ELSE s

\* the returns stages (KR lines 417-422, all countries lines 440-446)
StageReturns(s, on, ret) ==
    IF on /\ Truthy(ret)
    THEN SetKeys(SetKeys(s, RETURN_KEYS, 1, ret, FALSE), RET_META_KEYS, 1, ret, FALSE)
    ELSE s

\* US: the valuation stage (lines 428-435), keyed by the asset id
StageUsVal(s, isUs, fmp) == IF isUs THEN SetKeys(s, VAL_KEYS, 1, fmp, TRUE) ELSE s

\* a faulty variant: every country but KR is taken for US
IsUsNotKr(aid, country, fmp) ==
    aid # "" /\ country # "KR" /\ Truthy(fmp) /\ _is_meaningful_valuation(fmp)

IsKr(country, ticker) == country = "KR" /\ ticker # <<>> /\ _is_valid_kr_ticker(zfill6(ticker))
IsUs(aid, country, fmp) ==
    aid # "" /\ country = "US" /\ Truthy(fmp) /\ _is_meaningful_valuation(fmp)

\* the stages applied to a node whose metrics already have their shape
InjectStages(n1, c) ==
    LET aid == IdText(n1.id)
        country == Strip(Upper(n1.country))
        isKr == IsKr(country, n1.ticker)
        isUs == IsUs(aid, country, Lookup(c.fmpVal, aid))
        s2 == StageReturns(StageKrVal([m |-> n1.metrics, ch |-> FALSE], isKr,
                                      Lookup(c.krVal, zfill6(n1.ticker))),
                           isKr, Lookup(c.krRet, zfill6(n1.ticker)))
        s3 == StageUsVal(s2, isUs, Lookup(c.fmpVal, aid))
        s4 == StageReturns(s3, aid # "", Lookup(c.retAll, aid))
    IN [m |-> s4.m, changed |-> s4.ch, changedUs |-> isUs /\ s3.ch]

\* the body of the loop over nodes for one ASSET node (lines 391-449)
InjectAssetNode(node, c) ==
    LET shaped == _ensure_asset_metrics_shape(node)
        st == InjectStages(shaped.node, c)
    IN [node |-> [shaped.node EXCEPT !.metrics = st.m],
        shapedNode |-> shaped.node,
        structural |-> shaped.changed,
        changed |-> st.changed,
        changedUs |-> st.changedUs,
        raised |-> IdRaises(node.id)]

\* one iteration of the loop over nodes; acc carries the locals of the function
InjectNode(acc, i, r) ==
    IF r.raised
    THEN [acc EXCEPT !.raised = TRUE, !.scanned = @ + 1,
                     !.structural = r.structural \/ @]
    ELSE [acc EXCEPT !.nodes[i] = r.node,
                     !.scanned = @ + 1,
                     !.structural = r.structural \/ @,
                     !.updated = IF r.changed THEN @ + 1 ELSE @,
                     !.updated_us = IF r.changedUs THEN @ + 1 ELSE @]

\* the loop over nodes (lines 385-449); an exception ends it
RECURSIVE InjectNodes(_, _, _)
InjectNodes(acc, i, c) ==
    IF acc.raised \/ i > Len(acc.nodes) THEN acc
    ELSE IF acc.nodes[i].type # "ASSET" THEN InjectNodes(acc, i + 1, c)
    ELSE CHOOSE out \in {InjectNodes(a, i + 1, c) :
                            a \in {InjectNode(acc, i, r) :
                                      r \in {InjectAssetNode(acc.nodes[i], c)}}} : TRUE

\* the file after the call, the tuple the call returns, whether it wrote, whether it raised
inject_metrics_into_theme(file, c) ==
    LET acc == InjectNodes([nodes |-> file, updated |-> 0, scanned |-> 0,
                            structural |-> FALSE, updated_us |-> 0, raised |-> FALSE], 1, c)
        wrote == ~acc.raised /\ (acc.updated > 0 \/ acc.structural)
    IN [file |-> IF wrote THEN acc.nodes ELSE file,
        updated |-> acc.updated, scanned |-> acc.scanned,
        structural |-> acc.structural, updated_us |-> acc.updated_us,
        wrote |-> wrote, raised |-> acc.raised]

(***************************************************************************)
(* Inputs of the injector                                                   *)
(***************************************************************************)
T1 == <<1, 2, 3, 4, 5>>          \* a KR ticker stored without its leading zero
K1 == zfill6(T1)                 \* the key of that ticker in the by-ticker caches
TUS == <<10, 10>>                \* a US symbol (letters)

AssetNode(id, country, ticker, isDict, metrics) ==
    [type |-> "ASSET", id |-> id, country |-> country, ticker |-> ticker,
     isDict |-> isDict, metrics |-> metrics]

ThemeNode == [type |-> "THEME", id |-> Str("T_001"), country |-> "", ticker |-> <<>>,
              isDict |-> FALSE, metrics |-> EmptyMap]

NoDict == [isDict |-> FALSE, metrics |-> EmptyMap]
EmptyDict == [isDict |-> TRUE, metrics |-> EmptyMap]
Stored == [isDict |-> TRUE, metrics |-> ("close" :> Num(1)) @@ ("return_3d" :> Num(1))
                                        @@ ("returnsSource" :> Str("MANUAL"))]

InitAssets ==
    { AssetNode(Str("A_001"), x[1], T1, x[2].isDict, x[2].metrics) :
        x \in {<<"KR", NoDict>>, <<"KR", Stored>>, <<"kr", EmptyDict>>} }
    \cup
    { AssetNode(Str("A_002"), x[1], x[3], x[2].isDict, x[2].metrics) :
        x \in {<<"US", NoDict, TUS>>, <<"US", Stored, TUS>>, <<"JP", Stored, T1>>} }

InitThemes == { <<ThemeNode, a>> : a \in InitAssets }

ValRecs ==
    [{"close"} -> {Null} \cup NumVals]
    \cup {("close" :> Num(0)) @@ ("marketCap" :> Num(1))}

RetRecs ==
    [{"return_3d"} -> {Null} \cup NumVals]
    \cup {("return_3d" :> Num(1)) @@ ("returnsSource" :> Str("PYKRX")),
          ("return_3d" :> Null) @@ ("returnsSource" :> Str(" "))}

OneEntry(keys, recs) == {EmptyMap} \cup {k :> r : k \in keys, r \in recs}

\* the contents each cache file can have
CacheMaps ==
    [krVal |-> OneEntry({K1}, ValRecs), krRet |-> OneEntry({K1}, RetRecs),
     fmpVal |-> OneEntry({"A_002"}, ValRecs),
     retAll |-> OneEntry({"A_001", "A_002"}, RetRecs)]

NoCaches == [krVal |-> EmptyMap, krRet |-> EmptyMap, fmpVal |-> EmptyMap, retAll |-> EmptyMap]

NoRun == [ran |-> FALSE, wrote |-> FALSE, updated |-> 0, structural |-> FALSE,
          repeat |-> FALSE, raised |-> FALSE]

\* the idle values of each script's variables
IdleInject ==
    /\ themeFile = <<>> /\ caches = NoCaches /\ injLast = NoRun
    /\ injSame = FALSE /\ injLoads = 0

IdleMerge ==
    /\ frags = EmptyMap /\ discovered = <<>>
    /\ masterA = [ran |-> FALSE] /\ masterB = [ran |-> FALSE]

IdleFetch ==
    /\ fEnv = [script |-> "none"] /\ fCache = [exists |-> FALSE] /\ fRun = [pc |-> "idle"]

IdleFreeze ==
    /\ zEnv = [script |-> "none"] /\ zFiles = EmptyMap /\ zRun = [pc |-> "idle"]

IdleWrite ==
    /\ wEnv = [writer |-> "none"] /\ wDisk = [target |-> "none"] /\ wRun = [pc |-> "idle"]

IdleCalc == calcIn = [calc |-> "none"] /\ calcOut = [pc |-> "idle"]

IdleValid == vIn = [script |-> "none"] /\ vOut = [pc |-> "idle"]

IdleUpdate == uTheme = [readable |-> FALSE] /\ uRun = [pc |-> "idle"]

(***************************************************************************)
(* The injector as a state machine: the cache files are reloaded, or        *)
(* inject_metrics_into_theme runs over the theme file with the caches.      *)
(***************************************************************************)
InitInject ==
    /\ themeFile \in InitThemes
    /\ caches = NoCaches
    /\ injLast = NoRun
    /\ injSame = FALSE
    /\ injLoads = 0
    /\ IdleMerge /\ IdleFetch /\ IdleFreeze /\ IdleWrite /\ IdleCalc /\ IdleValid /\ IdleUpdate

CacheNames == {"krVal", "krRet", "fmpVal", "retAll"}

\* one cache file is rewritten by its updater between two runs of build_freeze
LoadCaches ==
    /\ \E f \in CacheNames : \E m \in CacheMaps[f] :
          /\ m # caches[f]
          /\ caches' = [caches EXCEPT ![f] = m]
    /\ injLoads < MaxLoads
    /\ injLoads' = injLoads + 1
    /\ injSame' = FALSE
    /\ UNCHANGED <<themeFile, injLast>>
    /\ UNCHANGED <<mergeVars, fetchVars, freezeVars, writeVars, calcVars, validVars, updVars>>

Inject ==
    LET r == inject_metrics_into_theme(themeFile, caches) IN
    /\ themeFile' = r.file
    /\ injLast' = [ran |-> TRUE, wrote |-> r.wrote, updated |-> r.updated,
                   structural |-> r.structural, repeat |-> injSame, raised |-> r.raised]
    /\ injSame' = TRUE
    /\ UNCHANGED <<caches, injLoads>>
    /\ UNCHANGED <<mergeVars, fetchVars, freezeVars, writeVars, calcVars, validVars, updVars>>

NextInject == LoadCaches \/ Inject

SpecInject == InitInject /\ [][NextInject]_vars

(***************************************************************************)
(* Claims about the injector                                                *)
(***************************************************************************)
IsBlank(v) == v.t = "str" /\ Strip(v.s) = ""

\* the cache records section 4.4 makes applicable to a node: KR valuation and KR
\* returns by ticker for a KR node, US valuation by asset id for a US node, the
\* all-country returns by asset id for every node
ApplicableRecs(node, c) ==
    LET co == Strip(Upper(node.country))
        t6 == zfill6(node.ticker)
        aid == IdText(node.id)
    IN (IF co = "KR" THEN {Lookup(c.krVal, t6), Lookup(c.krRet, t6)} ELSE {})
       \cup (IF co = "US" THEN {Lookup(c.fmpVal, aid)} ELSE {})
       \cup {Lookup(c.retAll, aid)}

\* C1: metrics injection never clears data.  In every step, a metric field of an
\* ASSET node that holds a non-null value keeps a non-null, non-empty value and is
\* not removed, and a field's value changes only to a non-null, non-empty value
\* that an applicable cache record holds for that field and that differs from the
\* stored one.
C1_NeverClears ==
    [][ /\ Len(themeFile') = Len(themeFile)
        /\ \A i \in 1..Len(themeFile) :
             LET old == themeFile[i]
                 new == themeFile'[i]
             IN (old.type = "ASSET" /\ old.isDict) =>
                  /\ new.isDict
                  /\ DOMAIN old.metrics \subseteq DOMAIN new.metrics
                  /\ \A k \in DOMAIN new.metrics :
                       LET ov == Get(old.metrics, k)
                           nv == new.metrics[k]
                       IN /\ ov # Null => (nv # Null /\ ~IsBlank(nv))
                          /\ nv # ov =>
                               /\ nv # Null /\ ~IsBlank(nv)
                               /\ \E rec \in ApplicableRecs(old, caches) :
                                     k \in DOMAIN rec /\ rec[k] = nv
      ]_vars

\* C1 witness: a run was made with a KR returns record that carries null for
\* return_3d and a blank returnsSource, over a node that stores both fields, and
\* the stored values are still there.
C1_Witness ==
    /\ injLast.ran /\ injSame
    /\ caches.krRet = (K1 :> (("return_3d" :> Null) @@ ("returnsSource" :> Str(" "))))
    /\ caches.retAll = EmptyMap
    /\ \E i \in 1..Len(themeFile) :
          /\ themeFile[i].type = "ASSET" /\ themeFile[i].country = "KR"
          /\ Get(themeFile[i].metrics, "return_3d") = Num(1)
          /\ Get(themeFile[i].metrics, "returnsSource") = Str("MANUAL")

\* C2: injector idempotence.  A run made with the caches of the run before it
\* writes no file: it counts no ASSET node as changed and detects no structural
\* change.
C2_SecondRunWritesNothing ==
    (injLast.ran /\ injLast.repeat) =>
        (~injLast.wrote /\ injLast.updated = 0 /\ ~injLast.structural)

(***************************************************************************)
(* The fragment mergers.  A fragment directory is named g<digits> or        *)
(* g<digits>_SANITIZED; a name is the string of its character codes.        *)
(***************************************************************************)
FragDir(digits, san) == [digits |-> digits, san |-> san]

\* the character codes of "_sanitized"
SanSuffixLower == <<95, 115, 97, 110, 105, 116, 105, 122, 101, 100>>

\* p.name.lower(): "g", the digits, and the suffix of a sanitized directory
NameLower(d) ==
    <<103>> \o [i \in 1..Len(d.digits) |-> 48 + d.digits[i]]
            \o (IF d.san THEN SanSuffixLower ELSE <<>>)

\* int(m.group(1))
RECURSIVE DigitsToInt(_)
DigitsToInt(ds) ==
    IF ds = <<>> THEN 0 ELSE 10 * DigitsToInt(SubSeq(ds, 1, Len(ds) - 1)) + ds[Len(ds)]

extract_g_num(d) == DigitsToInt(d.digits)

is_sanitized_dir(d) == d.san

\* the comparison of Python strings and tuples of integers
RECURSIVE LexLess(_, _)
LexLess(a, b) ==
    IF a = <<>> THEN b # <<>>
    ELSE IF b = <<>> THEN FALSE
    ELSE IF a[1] # b[1] THEN a[1] < b[1]
    ELSE LexLess(Tail(a), Tail(b))

\* a faulty variant: the sanitized directories are not ranked first
DirKeyNoSanitized(d) ==
    LET g == extract_g_num(d) IN <<1, -(IF g = 0 THEN -1 ELSE g)>>

\* def key(p): gnum = extract_g_num(p) or -1; return (0 if sanitized else 1, -gnum)
DirKey(d) ==
    LET g == extract_g_num(d)
    IN <<IF is_sanitized_dir(d) THEN 0 ELSE 1, -(IF g = 0 THEN -1 ELSE g)>>

SortKey(d, by) == IF by = "name" THEN NameLower(d) ELSE DirKey(d)

\* list.sort / sorted: stable, ascending by key
RECURSIVE InsertSorted(_, _, _)
InsertSorted(sorted, d, by) ==
    IF sorted = <<>> THEN <<d>>
    ELSE IF LexLess(SortKey(d, by), SortKey(sorted[1], by))
         THEN <<d>> \o sorted
         ELSE <<sorted[1]>> \o InsertSorted(Tail(sorted), d, by)

RECURSIVE StableSort(_, _)
StableSort(q, by) ==
    IF q = <<>> THEN <<>>
    ELSE InsertSorted(StableSort(SubSeq(q, 1, Len(q) - 1), by), q[Len(q)], by)

\* a faulty variant of list_g_dirs: the directories are not sorted by name first
list_g_dirs_key_only(found) == StableSort(found, "key")

\* sccripts: the directories in priority order
list_g_dirs(found) == StableSort(StableSort(found, "name"), "key")

\* scripts: the directories in name order
list_fragment_dirs(found) == StableSort(found, "name")

(***************************************************************************)
(* A fragment file has a header and rows; a row maps the header's columns   *)
(* to strings.                                                              *)
(***************************************************************************)
NoFile == [exists |-> FALSE, readable |-> TRUE, header |-> <<>>, rows |-> <<>>]
CsvFile(header, rows) == [exists |-> TRUE, readable |-> TRUE, header |-> header, rows |-> rows]

\* a fragment file on which open() or csv.DictReader raises (not UTF-8, no permission)
UnreadableCsv == [exists |-> TRUE, readable |-> FALSE, header |-> <<>>, rows |-> <<>>]

\* r.get(col) or ""
RowGet(r, col) == IF col \in DOMAIN r THEN r[col] ELSE ""

\* a faulty variant of merge_headers: the columns of the later file are dropped
merge_headers_keep_base(base, extra) == base

\* def merge_headers(base, extra)
RECURSIVE merge_headers(_, _)
merge_headers(base, extra) ==
    IF extra = <<>> THEN base
    ELSE LET h2 == Strip(extra[1])
         IN merge_headers(IF h2 = "" \/ h2 \in Range(base) THEN base ELSE Append(base, h2),
                          Tail(extra))

\* the loop over the rows of one file (sccripts lines 164-178)
RECURSIVE ScanRowsA(_, _, _, _, _)
ScanRowsA(acc, rows, i, id_col, d) ==
    IF i > Len(rows) THEN acc
    ELSE LET r == rows[i]
             rid == Strip(RowGet(r, id_col))
             a1 == [acc EXCEPT !.total_rows = @ + 1]
         IN ScanRowsA(
              IF rid = "" THEN [a1 EXCEPT !.skipped_no_id = @ + 1]
              ELSE IF rid \in DOMAIN a1.winners THEN a1
              ELSE [a1 EXCEPT !.winners = Put(@, rid, r),
                              !.winner_src = Put(@, rid, d),
                              !.kept_rows = @ + 1],
              rows, i + 1, id_col, d)

\* the loop over the directories (sccripts lines 152-178)
RECURSIVE ScanDirsA(_, _, _, _, _)
ScanDirsA(acc, g_dirs, i, files, id_col) ==
    IF i > Len(g_dirs) THEN acc
    ELSE LET d == g_dirs[i]
             f == files[d]
         IN IF ~f.exists THEN ScanDirsA(acc, g_dirs, i + 1, files, id_col)
            ELSE LET a1 == [acc EXCEPT !.used_files = Append(@, d)]
                 IN IF f.header = <<>> \/ f.rows = <<>>
                    THEN ScanDirsA(a1, g_dirs, i + 1, files, id_col)
                    ELSE ScanDirsA(
                           ScanRowsA([a1 EXCEPT !.headers = merge_headers(@, f.header)],
                                     f.rows, 1, id_col, d),
                           g_dirs, i + 1, files, id_col)

\* the numeric part of an id of the model ("A_1", "A_2", "A_10")
IdNumber(x) == IF x = "A_1" THEN 1 ELSE IF x = "A_2" THEN 2 ELSE IF x = "A_10" THEN 10 ELSE 0

\* a faulty variant of SortIds: only the lowest id is emitted
SortIdsOnlyLowest(ids) ==
    IF ids = {} THEN <<>>
    ELSE <<CHOOSE x \in ids : \A y \in ids : IdNumber(x) <= IdNumber(y)>>

\* sorted(winners.keys(), key=sort_key): the ids of the model share the prefix "A_"
RECURSIVE SortIds(_)
SortIds(ids) ==
    IF ids = {} THEN <<>>
    ELSE LET lo == CHOOSE x \in ids : \A y \in ids : IdNumber(x) <= IdNumber(y)
         IN <<lo>> \o SortIds(ids \ {lo})

\* sccripts lines 152-158: safe_read_csv (94-109) has no handler, so the exception of
\* the first unreadable fragment leaves build_one_master
ReadRaises(g_dirs, files) ==
    \E i \in 1..Len(g_dirs) : files[g_dirs[i]].exists /\ ~files[g_dirs[i]].readable

\* what is left of a call of build_one_master that raised
RaisedMaster ==
    [ran |-> FALSE, raised |-> TRUE, headers |-> <<>>, merged_rows |-> <<>>,
     winners |-> EmptyMap, winner_src |-> EmptyMap,
     report |-> [used_files |-> <<>>, total_rows_scanned |-> 0, rows_kept_unique |-> 0,
                 rows_skipped_no_id |-> 0, unique_ids |-> 0]]

\* def build_one_master(g_dirs, filename, id_col)
build_one_master(g_dirs, files, id_col) ==
    IF ReadRaises(g_dirs, files) THEN RaisedMaster ELSE
    LET acc == ScanDirsA([winners |-> EmptyMap, winner_src |-> EmptyMap,
                          headers |-> <<id_col>>, used_files |-> <<>>,
                          total_rows |-> 0, kept_rows |-> 0, skipped_no_id |-> 0],
                         g_dirs, 1, files, id_col)
        order == SortIds(DOMAIN acc.winners)
    IN [ran |-> TRUE, raised |-> FALSE,
        headers |-> acc.headers,
        merged_rows |-> [i \in 1..Len(order) |-> acc.winners[order[i]]],
        winners |-> acc.winners,
        winner_src |-> acc.winner_src,
        report |-> [used_files |-> acc.used_files,
                    total_rows_scanned |-> acc.total_rows,
                    rows_kept_unique |-> acc.kept_rows,
                    rows_skipped_no_id |-> acc.skipped_no_id,
                    unique_ids |-> Cardinality(DOMAIN acc.winners)]]

\* str.lower() on the column names of the model
ColLower(x) == IF x = "ASSET_ID" THEN "asset_id" ELSE IF x = "ID" THEN "id" ELSE x

NoKey == "<none>"

\* def detect_id_key(header, candidates): exact match first, then case-insensitive
detect_id_key(header, candidates) ==
    LET exact == {i \in 1..Len(candidates) : candidates[i] \in {Strip(h) : h \in Range(header)}}
        loose == {i \in 1..Len(candidates) :
                    \E h \in Range(header) : ColLower(h) = ColLower(candidates[i])}
        first(S) == CHOOSE i \in S : \A j \in S : i <= j
    IN IF exact # {} THEN candidates[first(exact)]
       ELSE IF loose # {}
            THEN LET c == candidates[first(loose)]
                     hs == {j \in 1..Len(header) : ColLower(header[j]) = ColLower(c)}
                 IN header[CHOOSE j \in hs : \A k \in hs : k <= j]
            ELSE NoKey

\* {h: (r.get(h, "") or "").strip() for h in out_header}
NormalizeRow(r, out_header) == [h \in Range(out_header) |-> Strip(RowGet(r, h))]

\* the loop over the rows of one file (scripts lines 109-117)
RECURSIVE ScanRowsB(_, _, _)
ScanRowsB(acc, rows, i) ==
    IF i > Len(rows) THEN acc
    ELSE LET r == rows[i]
             rid == Strip(RowGet(r, acc.id_key))
         IN ScanRowsB(
              IF rid = "" \/ rid \in DOMAIN acc.merged THEN acc
              ELSE [acc EXCEPT !.merged = Put(@, rid, NormalizeRow(r, acc.out_header)),
                               !.order = Append(@, rid)],
              rows, i + 1)

\* the loop over the directories (scripts lines 85-117); a file that cannot be read
\* is skipped with a warning (lines 90-94)
RECURSIVE ScanDirsB(_, _, _, _, _)
ScanDirsB(acc, dirs, i, files, id_candidates) ==
    IF acc.aborted \/ i > Len(dirs) THEN acc
    ELSE LET f == files[dirs[i]]
         IN IF ~f.exists \/ ~f.readable \/ f.header = <<>> \/ f.rows = <<>>
            THEN ScanDirsB(acc, dirs, i + 1, files, id_candidates)
            ELSE LET a1 == IF acc.out_header = <<>>
                           THEN [acc EXCEPT !.out_header = f.header,
                                            !.id_key = detect_id_key(f.header, id_candidates)]
                           ELSE acc
                 IN IF a1.id_key = NoKey THEN [a1 EXCEPT !.aborted = TRUE]
                    ELSE ScanDirsB(
                           ScanRowsB([a1 EXCEPT !.files_used = Append(@, dirs[i])], f.rows, 1),
                           dirs, i + 1, files, id_candidates)

\* def merge_master(master_name, fragment_filename, id_candidates, dirs)
merge_master(id_candidates, dirs, files) ==
    LET acc == ScanDirsB([merged |-> EmptyMap, order |-> <<>>, out_header |-> <<>>,
                          id_key |-> NoKey, files_used |-> <<>>, aborted |-> FALSE],
                         dirs, 1, files, id_candidates)
    IN IF acc.aborted
       THEN [ran |-> TRUE, header |-> <<>>, rows |-> <<>>, merged |-> EmptyMap]
       ELSE [ran |-> TRUE, header |-> acc.out_header,
             rows |-> [i \in 1..Len(acc.order) |-> acc.merged[acc.order[i]]],
             merged |-> acc.merged]

(***************************************************************************)
(* Inputs of the mergers                                                    *)
(***************************************************************************)
\* a run sees at most MaxDirs fragment directories
MaxDirs == 2

G1 == FragDir(<<1>>, FALSE)
G2S == FragDir(<<2>>, TRUE)

DirUniverse ==
    {FragDir(ds, san) : ds \in {<<0>>, <<1>>, <<0, 1>>, <<2>>, <<1, 0>>}, san \in BOOLEAN}

AssetHeader == <<"asset_id", "name">>
Row(id, v) == [asset_id |-> id, name |-> v]

FileChoices ==
    { NoFile,
      CsvFile(AssetHeader, <<>>),
      CsvFile(AssetHeader, <<Row("A_1", "x")>>),
      CsvFile(AssetHeader, <<Row("A_1", "y")>>),
      CsvFile(AssetHeader, <<Row("", "x"), Row("A_2", "y")>>),
      CsvFile(AssetHeader, <<Row("A_10", "x"), Row("A_1", "z"), Row("A_10", "y")>>),
      UnreadableCsv,
      CsvFile(<<"name", "asset_id">>, <<Row("A_2", "w")>>),
      CsvFile(<<"asset_id", "ticker">>, <<[asset_id |-> "A_1", ticker |-> "t"]>>) }

Perms(S) == {q \in [1..Cardinality(S) -> S] : \A i, j \in 1..Cardinality(S) : i # j => q[i] # q[j]}

\* TARGETS["asset"] / MASTER_SPECS["asset.csv"]
AssetIdCandidates == <<"asset_id", "id", "assetId">>
AssetIdCol == "asset_id"

(***************************************************************************)
(* The mergers as a state machine: the fragments and the order in which the *)
(* file system lists the directories are fixed by Init; each script runs    *)
(* once over them.                                                          *)
(***************************************************************************)
\* the runs of the master build over the same fragments
MaxRuns == 2

\* data/master/asset.csv or _build_report.json before the first run
NoOut == [exists |-> FALSE, headers |-> <<>>, rows |-> <<>>]

\* sccripts write_csv, lines 112-118: the header line and, per row, the value of
\* every header column ("" when the row has none)
CsvText(headers, rows) ==
    [exists |-> TRUE, headers |-> headers,
     rows |-> [i \in 1..Len(rows) |-> [h \in Range(headers) |-> RowGet(rows[i], h)]]]

\* sccripts main, lines 208-212, 233, 237: the report for asset.csv as text
ReportText(g_dirs, m) ==
    [exists |-> TRUE, headers |-> g_dirs, rows |-> <<m.report, m.winner_src>>]

\* sccripts main before its first run: nothing returned, nothing on disk
NotRunA ==
    [ran |-> FALSE, raised |-> FALSE, runs |-> 0, changed_any |-> FALSE, tmp_left |-> FALSE,
     disk |-> NoOut, disk_report |-> NoOut, prev_disk |-> NoOut, prev_report |-> NoOut]

\* sccripts main, lines 203-249, for asset.csv: prev is the state the last run left,
\* m what build_one_master returns; a run that raised has written nothing
MainA(prev, g_dirs, m) ==
    [ran |-> m.ran, raised |-> m.raised, headers |-> m.headers,
     merged_rows |-> m.merged_rows, winners |-> m.winners, winner_src |-> m.winner_src,
     report |-> m.report,
     runs |-> prev.runs + 1,
     changed_any |-> /\ ~m.raised
                     /\ \/ CsvText(m.headers, m.merged_rows) # prev.disk
                        \/ ReportText(g_dirs, m) # prev.disk_report,
     tmp_left |-> FALSE,
     disk |-> IF m.raised THEN prev.disk ELSE CsvText(m.headers, m.merged_rows),
     disk_report |-> IF m.raised THEN prev.disk_report ELSE ReportText(g_dirs, m),
     prev_disk |-> prev.disk, prev_report |-> prev.disk_report]

InitMerge ==
    /\ \E present \in SUBSET DirUniverse :
          /\ Cardinality(present) \in 1..MaxDirs
          /\ frags \in [present -> FileChoices]
          /\ discovered \in Perms(present)
    /\ masterA = NotRunA
    /\ masterB = [ran |-> FALSE]
    /\ IdleInject /\ IdleFetch /\ IdleFreeze /\ IdleWrite /\ IdleCalc /\ IdleValid /\ IdleUpdate

\* sccripts/build_master_from_fragments.py: main() for asset.csv
\* each run lists the directories anew, in an order of the file system's choosing
RunBuildOneMaster ==
    /\ masterA.runs < MaxRuns
    /\ discovered' \in Perms(DOMAIN frags)
    /\ \E g_dirs \in {list_g_dirs(discovered')} :
          \E m \in {build_one_master(g_dirs, frags, AssetIdCol)} :
             masterA' = MainA(masterA, g_dirs, m)
    /\ UNCHANGED <<frags, masterB>>
    /\ UNCHANGED <<injVars, fetchVars, freezeVars, writeVars, calcVars, validVars, updVars>>

\* scripts/build_master_from_fragments.py: main() for asset.csv
RunMergeMaster ==
    /\ ~masterB.ran
    /\ masterB' = merge_master(AssetIdCandidates, list_fragment_dirs(discovered), frags)
    /\ UNCHANGED <<frags, discovered, masterA>>
    /\ UNCHANGED <<injVars, fetchVars, freezeVars, writeVars, calcVars, validVars, updVars>>

NextMerge == RunBuildOneMaster \/ RunMergeMaster

SpecMerge == InitMerge /\ [][NextMerge]_vars

(***************************************************************************)
(* Claims about the mergers                                                 *)
(***************************************************************************)
\* the non-empty ids a directory's fragment holds
IdsIn(d) == {Strip(RowGet(frags[d].rows[i], AssetIdCol)) : i \in 1..Len(frags[d].rows)} \ {""}

\* every sanitized directory outranks every non-sanitized one; within a kind the
\* higher number outranks the lower
Outranks(d, e) ==
    \/ d.san /\ ~e.san
    \/ d.san = e.san /\ DigitsToInt(d.digits) > DigitsToInt(e.digits)

\* C3: when an id appears in fragments of directories of different priority, the
\* master row of sccripts/build_master_from_fragments.py for that id is a row of
\* the directory that outranks the others, whatever the discovery order.
C3_HigherPriorityWins ==
    masterA.ran =>
      \A d \in DOMAIN frags : \A e \in DOMAIN frags : \A id \in IdsIn(d) \cap IdsIn(e) :
         Outranks(d, e) =>
            /\ id \in DOMAIN masterA.winners
            /\ masterA.winner_src[id] # e
            /\ \E k \in DOMAIN frags :
                  /\ ~Outranks(d, k)
                  /\ masterA.winner_src[id] = k
                  /\ \E i \in 1..Len(frags[k].rows) : frags[k].rows[i] = masterA.winners[id]
                  /\ \E i \in 1..Len(masterA.merged_rows) :
                        masterA.merged_rows[i] = masterA.winners[id]

\* C3 witness: g10 (raw) was listed before g2_SANITIZED, both hold A_1 with
\* different rows, and the merge has run.
C3_Witness ==
    /\ masterA.ran
    /\ discovered = <<FragDir(<<1, 0>>, FALSE), G2S>>
    /\ frags[FragDir(<<1, 0>>, FALSE)] = CsvFile(AssetHeader, <<Row("A_1", "x")>>)
    /\ frags[G2S] = CsvFile(AssetHeader, <<Row("A_1", "y")>>)
    /\ masterA.winners["A_1"] = Row("A_1", "y")

\* C4: over g1/asset.csv {A_1, "x"} and g2_SANITIZED/asset.csv {A_1, "y"} the
\* master build of scripts/build_master_from_fragments.py yields A_1 -> "y".
C4_SanitizedWinsEndToEnd ==
    ( /\ masterB.ran
      /\ DOMAIN frags = {G1, G2S}
      /\ frags[G1] = CsvFile(AssetHeader, <<Row("A_1", "x")>>)
      /\ frags[G2S] = CsvFile(AssetHeader, <<Row("A_1", "y")>>) )
    => ( /\ "A_1" \in DOMAIN masterB.merged
         /\ masterB.merged["A_1"] = Row("A_1", "y")
         /\ masterB.rows = <<Row("A_1", "y")>> )


(***************************************************************************)
(* The cache updaters: scripts/update_valuation_fmp.py,                     *)
(* scripts/update_valuation_kr.py and scripts/update_return_fmp.py.         *)
(* A ticker of the SSOT file is a sequence of character codes.              *)
(***************************************************************************)
AAPL == <<65, 65, 80, 76>>
BA == <<66, 65>>
ba_dot_raw == <<32, 98, 97, 46>>        \* " ba."
dot_raw == <<46>>                       \* "."
blank_raw == <<32>>                     \* " "
kr5930_raw == <<53, 57, 51, 48>>        \* "5930"
kr5930 == <<48, 48, 53, 57, 51, 48>>    \* "005930"
kr660 == <<48, 48, 48, 54, 54, 48>>     \* "000660"

\* str.strip() on a sequence of character codes (32 is the space)
RECURSIVE LStrip(_)
LStrip(t) == IF t # <<>> /\ t[1] = 32 THEN LStrip(Tail(t)) ELSE t

RECURSIVE RStrip(_)
RStrip(t) == IF t # <<>> /\ t[Len(t)] = 32 THEN RStrip(SubSeq(t, 1, Len(t) - 1)) ELSE t

StripSeq(t) == RStrip(LStrip(t))

\* str.upper(): the codes 97..122 are the lower-case letters
UpperSeq(t) == [i \in 1..Len(t) |-> IF t[i] \in 97..122 THEN t[i] - 32 ELSE t[i]]

\* def normalize_symbol(sym): strip, upper, drop one trailing "." (code 46)
normalize_symbol(sym) ==
    IF UpperSeq(StripSeq(sym)) # <<>> /\ UpperSeq(StripSeq(sym))[Len(StripSeq(sym))] = 46
    THEN SubSeq(UpperSeq(StripSeq(sym)), 1, Len(StripSeq(sym)) - 1)
    ELSE UpperSeq(StripSeq(sym))

\* str.zfill(6): pad on the left with "0" (code 48)
RECURSIVE ZfillSeq(_)
ZfillSeq(t) == IF Len(t) >= 6 THEN t ELSE ZfillSeq(<<48>> \o t)

\* re.fullmatch(r"A_\d{3,}", s) on the asset ids of the model
is_asset_id(s) == s \in {"A_001", "A_002", "A_003", "A_004", "A_005"}

\* float("nan"), as pandas gives for a missing cell
Nan == [t |-> "nan", n |-> 0, s |-> ""]

\* float(s) / int(float(s)) on the strings of the model; ValueError gives None
ParseNumber(s) == IF s = "1" THEN Num(1) ELSE IF s = "0" THEN Num(0) ELSE Null

\* def to_float_or_none(x) and def to_int_or_none(x): the numbers of the model are integers
to_float_or_none(x) ==
    IF x = Null \/ x = Nan THEN Null
    ELSE IF x.t = "num" THEN x
    ELSE IF Strip(x.s) \in {"", "-", "N/A", "None"} THEN Null
    ELSE ParseNumber(Strip(x.s))

to_int_or_none(x) == to_float_or_none(x)

\* the asset map (a dict, in insertion order) as a sequence of [aid, sym]
DictSet(out, aid, sym) ==
    IF \E j \in 1..Len(out) : out[j].aid = aid
    THEN [j \in 1..Len(out) |-> IF out[j].aid = aid THEN [aid |-> aid, sym |-> sym] ELSE out[j]]
    ELSE Append(out, [aid |-> aid, sym |-> sym])

SsotRow(aid, ticker, country) == [asset_id |-> aid, ticker |-> ticker, country |-> country]

\* a row of the SSOT file that load_us_assets_from_ssot keeps; update_return_fmp
\* also requires is_asset_id (strictId)
KeepsUsRow(r, strictId) ==
    /\ Strip(r.asset_id) # ""
    /\ strictId => is_asset_id(Strip(r.asset_id))
    /\ Upper(Strip(r.country)) = "US"
    /\ StripSeq(r.ticker) # <<>>

\* def load_us_assets_from_ssot() -> Dict[str, str], for an existing file
RECURSIVE load_us_assets_from_ssot(_, _, _, _)
load_us_assets_from_ssot(out, rows, i, strictId) ==
    IF i > Len(rows) THEN out
    ELSE load_us_assets_from_ssot(
           IF KeepsUsRow(rows[i], strictId)
           THEN DictSet(out, Strip(rows[i].asset_id), normalize_symbol(StripSeq(rows[i].ticker)))
           ELSE out,
           rows, i + 1, strictId)

\* def load_kr_assets_from_ssot(), for an existing, non-empty file
RECURSIVE load_kr_assets_from_ssot(_, _, _)
load_kr_assets_from_ssot(out, rows, i) ==
    IF i > Len(rows) THEN out
    ELSE load_kr_assets_from_ssot(
           IF Upper(Strip(rows[i].country)) = "KR" /\ StripSeq(rows[i].ticker) # <<>>
           THEN DictSet(out, Strip(rows[i].asset_id), ZfillSeq(StripSeq(rows[i].ticker)))
           ELSE out,
           rows, i + 1)

\* ---- the provider's answers -------------------------------------------
\* an HTTP answer: the status code and the decoded body
Resp(code, body) == [code |-> code, body |-> body]
\* a body that is not JSON, a JSON list, a JSON object (its fields, and the rows under one key)
TextBody == [kind |-> "text", key |-> "", rows |-> <<>>, fields |-> EmptyMap]
ListBody(rows) == [kind |-> "list", key |-> "", rows |-> rows, fields |-> EmptyMap]
DictBody(key, rows, fields) == [kind |-> "dict", key |-> key, rows |-> rows, fields |-> fields]

\* the status tag of a non-200 answer (fetch_quote_single and fetch_eod_full agree)
ErrorTag(code) ==
    IF code = 402 THEN "PAYMENT_REQUIRED"
    ELSE IF code = 429 THEN "RATE_LIMIT"
    ELSE IF code = 401 THEN "UNAUTHORIZED"
    ELSE IF code = 403 THEN "FORBIDDEN"
    ELSE IF code = 404 THEN "NOT_FOUND"
    ELSE "HTTP_OTHER"

\* def fetch_quote_single(symbol, api_key) -> (status_tag, quote_dict_or_none)
fetch_quote_single(resp) ==
    IF resp.code = 200
    THEN IF resp.body.kind = "list" /\ resp.body.rows # <<>>
         THEN [tag |-> "OK", q |-> resp.body.rows[1]]
         ELSE IF resp.body.kind = "dict" /\ Get(resp.body.fields, "symbol") \notin {Null, Str(""), Num(0)}
         THEN [tag |-> "OK", q |-> resp.body.fields]
         ELSE [tag |-> "BAD_JSON", q |-> EmptyMap]
    ELSE [tag |-> ErrorTag(resp.code), q |-> EmptyMap]

\* def fetch_eod_full(symbol, api_key) -> (status_tag, raw_obj_or_none)
fetch_eod_full(resp) ==
    IF resp.code = 200
    THEN IF resp.body.kind \in {"dict", "list"}
         THEN [tag |-> "OK", raw |-> resp.body]
         ELSE [tag |-> "BAD_JSON", raw |-> TextBody]
    ELSE [tag |-> ErrorTag(resp.code), raw |-> TextBody]

\* skipped.setdefault(tag, []).append(sym)
SkipAppend(sk, tag, sym) == Put(sk, tag, Append(IF tag \in DOMAIN sk THEN sk[tag] ELSE <<>>, sym))

\* every symbol recorded under some reason tag
SkippedSyms(sk) == UNION {Range(sk[t]) : t \in DOMAIN sk}

Count(m, k) == IF k \in DOMAIN m THEN m[k] ELSE 0

\* a faulty variant: every record counts as non-zero
HasNonzeroValueAlways(close, market_cap, pe) == TRUE

\* the test of update_valuation_fmp.py line 271 and update_valuation_kr.py line 171
HasNonzeroValue(close, market_cap, pe) ==
    NotNullOrZero(close) \/ NotNullOrZero(market_cap) \/ NotNullOrZero(pe)

ValItem(sym, close, market_cap, pe) ==
    [ticker |-> sym, close |-> close, marketCap |-> market_cap, pe_ttm |-> pe]

\* update_valuation_fmp.py lines 266-279: the record built from a quote
QuoteItem(sym, q) ==
    ValItem(sym, to_float_or_none(Get(q, "price")), to_int_or_none(Get(q, "marketCap")),
            IF "pe" \in DOMAIN q THEN to_float_or_none(q["pe"]) ELSE Null)

\* update_valuation_kr.py lines 159-167: int(x) if x not in (None, "") else None; an
\* exception (NaN) gives None
ToIntKr(x) == IF x = Null \/ x = Nan \/ x.t = "str" THEN Null ELSE x

\* update_valuation_kr.py lines 146-179: the record built from the two data frames
KrItem(tkr, cap_df, fun_df) ==
    ValItem(tkr,
            IF tkr \in DOMAIN cap_df THEN ToIntKr(Get(cap_df[tkr], "close")) ELSE Null,
            IF tkr \in DOMAIN cap_df THEN ToIntKr(Get(cap_df[tkr], "marketCap")) ELSE Null,
            IF tkr \in DOMAIN fun_df THEN to_float_or_none(Get(fun_df[tkr], "PER")) ELSE Null)

ItemCounts(it) == HasNonzeroValue(it.close, it.marketCap, it.pe_ttm)

\* update_valuation_kr.py lines 145-179: the loop over the assets
RECURSIVE KrItems(_, _, _, _, _)
KrItems(acc, assets, i, cap_df, fun_df) ==
    IF i > Len(assets) THEN acc
    ELSE KrItems([items |-> Put(acc.items, assets[i].aid, KrItem(assets[i].sym, cap_df, fun_df)),
                  nonzero |-> IF ItemCounts(KrItem(assets[i].sym, cap_df, fun_df))
                              THEN acc.nonzero + 1 ELSE acc.nonzero],
                 assets, i + 1, cap_df, fun_df)

\* ---- update_return_fmp.py: series and returns ---------------------------
\* A date string "YYYY-MM-DD" is the number year * 1000 + day of the year, so that
\* the order of the ISO strings is the order of the numbers; Str("x") is a string
\* strptime rejects.
RETURN_KEYS_FMP == <<"return_3d", "return_7d", "return_1m", "return_ytd", "return_1y", "return_3y">>
HORIZON_TO_TRADING_DAYS ==
    [return_3d |-> 3, return_7d |-> 7, return_1m |-> 21, return_1y |-> 252, return_3y |-> 756]
SENTINEL_SYMBOLS == {AAPL, <<77, 83, 70, 84>>, <<83, 80, 89>>}

IsFalsy(v) == v = Null \/ v = Str("") \/ v = Num(0)

\* r.get("date") or r.get("datetime") or r.get("time")
RowDate(r) ==
    IF ~IsFalsy(Get(r, "date")) THEN Get(r, "date")
    ELSE IF ~IsFalsy(Get(r, "datetime")) THEN Get(r, "datetime")
    ELSE Get(r, "time")

\* r.get("close") if "close" in r else r.get("price")
RowClose(r) == IF "close" \in DOMAIN r THEN r["close"] ELSE Get(r, "price")

\* the rows parse_eod_series keeps (lines 256-275)
KeepsRow(r) ==
    /\ ~IsFalsy(RowDate(r))
    /\ RowDate(r).t = "num"
    /\ to_float_or_none(RowClose(r)) # Null

RECURSIVE InsertByDate(_, _)
InsertByDate(sorted, x) ==
    IF sorted = <<>> THEN <<x>>
    ELSE IF x.d < sorted[1].d THEN <<x>> \o sorted
    ELSE <<sorted[1]>> \o InsertByDate(Tail(sorted), x)

\* the loop over the rows followed by out.sort(key=date), which is stable
RECURSIVE CollectRows(_, _, _)
CollectRows(out, rows, i) ==
    IF i > Len(rows) THEN out
    ELSE CollectRows(IF KeepsRow(rows[i])
                     THEN InsertByDate(out, [d |-> RowDate(rows[i]).n,
                                             c |-> to_float_or_none(RowClose(rows[i])).n])
                     ELSE out,
                     rows, i + 1)

\* def parse_eod_series(raw_obj): <<>> stands for None (both are falsy to the caller)
parse_eod_series(raw) ==
    IF raw.kind = "dict" /\ raw.key \in {"historical", "data", "prices"} /\ raw.rows # <<>>
    THEN CollectRows(<<>>, raw.rows, 1)
    ELSE IF raw.kind = "list" THEN CollectRows(<<>>, raw.rows, 1)
    ELSE <<>>

\* def pct_return(last_close, prev_close); the closes of the model are powers of two
\* up to 4, so that the quotient is exact
pct_return(last_close, prev_close) ==
    IF prev_close = 0 THEN Null ELSE Num((last_close * 100) \div prev_close - 100)

\* a faulty variant: the close one position too late is the base
HorizonReturnOffByOne(closes, tdays) ==
    IF Len(closes) <= tdays THEN Null
    ELSE pct_return(closes[Len(closes)].c, closes[Len(closes) - tdays + 1].c)

\* lines 291-296: one horizon of compute_returns_from_series
HorizonReturn(closes, tdays) ==
    IF Len(closes) <= tdays THEN Null
    ELSE pct_return(closes[Len(closes)].c, closes[Len(closes) - tdays].c)

YearOf(d) == d \div 1000

\* a faulty variant: the first row of the series, whatever its year
FirstOfSeries(closes) == closes[1]

\* the first row of the last row's year
FirstOfYear(closes) ==
    closes[CHOOSE i \in 1..Len(closes) :
             /\ YearOf(closes[i].d) = YearOf(closes[Len(closes)].d)
             /\ \A j \in 1..(i - 1) : YearOf(closes[j].d) # YearOf(closes[Len(closes)].d)]

\* def compute_returns_from_series(closes) -> (as_of_iso, ret), for a non-empty series
compute_returns_from_series(closes) ==
    [as_of |-> closes[Len(closes)].d,
     ret |-> [k \in Range(RETURN_KEYS_FMP) |->
                IF k = "return_ytd"
                THEN pct_return(closes[Len(closes)].c, FirstOfYear(closes).c)
                ELSE HorizonReturn(closes, HORIZON_TO_TRADING_DAYS[k])]]

NoneReturns == [k \in Range(RETURN_KEYS_FMP) |-> Null]

\* update_return_fmp.py lines 356-370: the loop over the assets
RetItem(sym, series_cache) ==
    ("ticker" :> sym) @@
    (IF sym \in DOMAIN series_cache /\ series_cache[sym] # <<>>
     THEN compute_returns_from_series(series_cache[sym]).ret
     ELSE NoneReturns)

SymOf(assets, aid) == assets[CHOOSE j \in 1..Len(assets) : assets[j].aid = aid].sym

RetItems(assets, series_cache) ==
    [aid \in {assets[j].aid : j \in 1..Len(assets)} |-> RetItem(SymOf(assets, aid), series_cache)]

\* effective_as_of: the latest as_of_iso of the assets that have a series; Str("today")
\* stands for date.today()
EffectiveAsOf(assets, series_cache) ==
    IF \A j \in 1..Len(assets) :
          assets[j].sym \notin DOMAIN series_cache \/ series_cache[assets[j].sym] = <<>>
    THEN Str("today")
    ELSE Num(CHOOSE d \in {compute_returns_from_series(series_cache[assets[j].sym]).as_of :
                             j \in {k \in 1..Len(assets) :
                                      /\ assets[k].sym \in DOMAIN series_cache
                                      /\ series_cache[assets[k].sym] # <<>>}} :
               \A j \in 1..Len(assets) :
                  (assets[j].sym \in DOMAIN series_cache /\ series_cache[assets[j].sym] # <<>>)
                  => compute_returns_from_series(series_cache[assets[j].sym]).as_of <= d)

\* sorted(list(set(asset_map.values())))
RECURSIVE SortSyms(_)
SortSyms(S) ==
    IF S = {} THEN <<>>
    ELSE <<CHOOSE x \in S : \A y \in S : x = y \/ LexLess(x, y)>> \o
         SortSyms(S \ {CHOOSE x \in S : \A y \in S : x = y \/ LexLess(x, y)})

unique_symbols(assets) == SortSyms({assets[j].sym : j \in 1..Len(assets)})

(***************************************************************************)
(* Inputs of the cache updaters                                             *)
(***************************************************************************)
Scripts == {"valuation_fmp", "valuation_kr", "return_fmp"}

\* os.environ.get("FMP_API_KEY"): unset, blank, set
Keys == {"", " ", "k"}

R_AAPL == SsotRow("A_001", AAPL, "US")
R_BA == SsotRow("A_002", ba_dot_raw, "us")
R_DOT == SsotRow("A_003", dot_raw, "US")
R_BLANK == SsotRow("A_003", blank_raw, "US")
R_KR == SsotRow("A_004", kr5930_raw, "KR")
R_KR2 == SsotRow("A_005", kr660, "kr")
R_AAPL2 == SsotRow("X1", AAPL, "US")

NoSsot == [exists |-> FALSE, rows |-> <<>>]
Ssot(rows) == [exists |-> TRUE, rows |-> rows]

SsotChoices ==
    { NoSsot, Ssot(<<>>), Ssot(<<R_AAPL>>), Ssot(<<R_AAPL, R_BA>>), Ssot(<<R_DOT, R_AAPL>>),
      Ssot(<<R_KR, R_BLANK>>), Ssot(<<R_AAPL2, R_AAPL>>), Ssot(<<R_KR2, R_AAPL, R_KR>>) }

\* the cache file: absent, or the payload of an earlier run
NoCacheFile ==
    [exists |-> FALSE, asOf |-> Null, source |-> "", items |-> EmptyMap, skipped |-> EmptyMap]
CacheFile(asOf, source, items, skipped) ==
    [exists |-> TRUE, asOf |-> asOf, source |-> source, items |-> items, skipped |-> skipped]

OldCaches(script) ==
    { NoCacheFile,
      IF script = "valuation_fmp"
      THEN CacheFile(Str("today"), "FMP",
                     ("A_001" :> ValItem(AAPL, Num(1), Num(1), Num(1))) @@
                     ("A_002" :> ValItem(BA, Num(1), Num(1), Null)), EmptyMap)
      ELSE IF script = "valuation_kr"
      THEN CacheFile(Str("tradeday"), "PYKRX",
                     ("A_004" :> ValItem(kr5930, Num(1), Num(1), Num(1))), EmptyMap)
      ELSE CacheFile(Num(2024001), "FMP_STABLE",
                     ("A_001" :> (("ticker" :> AAPL) @@ [NoneReturns EXCEPT !["return_3d"] = Num(100)])) @@
                     ("A_002" :> (("ticker" :> BA) @@ [NoneReturns EXCEPT !["return_ytd"] = Num(-50)])),
                     EmptyMap) }

Fields(price, cap) == ("price" :> price) @@ ("marketCap" :> cap)

Quotes ==
    { Fields(Num(1), Num(1)) @@ ("pe" :> Num(1)),
      Fields(Num(0), Num(0)),
      Fields(Str("N/A"), Str("1")),
      Fields(Null, Null) @@ ("pe" :> Str("x")),
      EmptyMap }

ErrorCodes == {401, 402, 403, 404, 429, 500}

QuoteResponses ==
    {Resp(200, ListBody(<<q>>)) : q \in Quotes} \cup
    { Resp(200, ListBody(<<>>)), Resp(200, TextBody),
      Resp(200, DictBody("", <<>>, Fields(Num(1), Null) @@ ("symbol" :> Str("AAPL")))),
      Resp(200, DictBody("", <<>>, Fields(Num(1), Null))) } \cup
    {Resp(c, TextBody) : c \in ErrorCodes}

EodRow(d, c) == ("date" :> d) @@ ("close" :> c)

EodRows ==
    { <<EodRow(Num(2024002), Num(2))>>,
      <<EodRow(Num(2024003), Num(4)), EodRow(Num(2023364), Num(1)), EodRow(Num(2024001), Num(2)),
        ("datetime" :> Num(2024002)) @@ ("price" :> Str("2")),
        EodRow(Str("x"), Num(1)), EodRow(Num(2024004), Null)>>,
      <<EodRow(Num(2024001), Num(0)), EodRow(Num(2024002), Num(1))>>,
      <<EodRow(Null, Num(1))>> }

EodResponses ==
    {Resp(200, ListBody(rows)) : rows \in EodRows} \cup
    { Resp(200, DictBody("historical", <<EodRow(Num(2024002), Num(2))>>, EmptyMap)),
      Resp(200, DictBody("other", <<EodRow(Num(2024002), Num(2))>>, EmptyMap)),
      Resp(200, DictBody("data", <<>>, EmptyMap)),
      Resp(200, TextBody) } \cup
    {Resp(c, TextBody) : c \in ErrorCodes}

CapRow(close, cap) == ("close" :> close) @@ ("marketCap" :> cap)

\* stock.get_market_cap_by_ticker(day), indexed by ticker
CapChoices ==
    { EmptyMap, kr5930 :> CapRow(Num(1), Num(1)), kr5930 :> CapRow(Num(0), Num(0)),
      kr5930 :> CapRow(Nan, Null), kr660 :> CapRow(Num(0), Num(1)) }

\* stock.get_market_fundamental_by_ticker(day), indexed by ticker
FunChoices ==
    { EmptyMap, kr5930 :> ("PER" :> Num(1)), kr5930 :> ("PER" :> Nan), kr660 :> ("PER" :> Num(0)) }

\* ---- update_valuation_fmp.py find_asof_from_sentinels ---------------------------
\* int(ts): a number, or a string float() reads; None and other strings raise
IntOfTimestamp(ts) ==
    IF ts = Null THEN Null
    ELSE IF ts.t = "num" THEN ts
    ELSE ParseNumber(Strip(ts.s))

\* datetime.utcfromtimestamp(ts_i).strftime("%Y-%m-%d"): the day, counted from 1970-01-01
DateOfTimestamp(ts_i) == Num(ts_i.n \div 86400)

\* lines 202-211 for one sentinel: the date its quote gives, or Null
SentinelDate(resp) ==
    IF fetch_quote_single(resp).tag # "OK" THEN Null
    ELSE IF IntOfTimestamp(Get(fetch_quote_single(resp).q, "timestamp")) = Null THEN Null
    ELSE DateOfTimestamp(IntOfTimestamp(Get(fetch_quote_single(resp).q, "timestamp")))

\* def find_asof_from_sentinels(api_key): answers[i] is the provider's answer to the
\* request for SENTINEL_SYMBOLS[i]; a request is made only if no earlier one gave a date
RECURSIVE find_asof_from_sentinels(_, _, _)
find_asof_from_sentinels(answers, i, fallback) ==
    IF i > Len(answers) THEN fallback
    ELSE IF SentinelDate(answers[i]) # Null THEN SentinelDate(answers[i])
    ELSE find_asof_from_sentinels(answers, i + 1, fallback)

\* answers to a sentinel's quote request: refused, a quote with a timestamp of
\* 1970-01-02 or 1970-01-03, a quote with an unreadable timestamp, a quote without one
SentinelResponses ==
    { Resp(429, TextBody),
      Resp(200, ListBody(<<"timestamp" :> Num(86400 + 60)>>)),
      Resp(200, ListBody(<<"timestamp" :> Num(2 * 86400)>>)),
      Resp(200, ListBody(<<"timestamp" :> Str("x")>>)),
      Resp(200, ListBody(<<Fields(Num(1), Num(1))>>)) }

SentinelAnswers == [1..3 -> SentinelResponses]

(***************************************************************************)
(* The cache updaters as a state machine: main() of the chosen script runs  *)
(* once, one provider request per step.                                     *)
(***************************************************************************)
\* a faulty variant: the key is never found missing
MissingKeyNever(key) == FALSE

\* api_key = (os.environ.get("FMP_API_KEY") or "").strip(); if not api_key
MissingKey(key) == Strip(key) = ""

Run0 ==
    [pc |-> "start", assets |-> <<>>, syms |-> <<>>, i |-> 1, items |-> EmptyMap,
     skipped |-> EmptyMap, nonzero |-> 0, attempts |-> EmptyMap, series |-> EmptyMap,
     hist |-> {}, as_of |-> Null, exit |-> -1, writes |-> 0]

\* raise SystemExit("..."): the interpreter exits with status 1
Fatal(run) == [run EXCEPT !.pc = "fatal", !.exit = 1]

Skipped0(tags) == [t \in tags |-> <<>>]

FetchTags ==
    {"PAYMENT_REQUIRED", "RATE_LIMIT", "UNAUTHORIZED", "FORBIDDEN", "NOT_FOUND",
     "HTTP_OTHER", "BAD_JSON"}

InitFetch ==
    /\ \E script \in Scripts, key \in Keys, ssot \in SsotChoices :
          \E old \in OldCaches(script) :
             /\ fEnv = [script |-> script, key |-> key, ssot |-> ssot, old |-> old]
             /\ fCache = old
    /\ fRun = Run0
    /\ IdleInject /\ IdleMerge /\ IdleFreeze /\ IdleWrite /\ IdleCalc /\ IdleValid /\ IdleUpdate

\* ---- update_valuation_fmp.py main() --------------------------------------
\* lines 216-245: the key, the SSOT file and its US assets are required; then the
\* sentinels are asked for asOf
FmpValStart ==
    /\ fEnv.script = "valuation_fmp" /\ fRun.pc = "start"
    /\ IF MissingKey(fEnv.key) \/ ~fEnv.ssot.exists
          \/ load_us_assets_from_ssot(<<>>, fEnv.ssot.rows, 1, FALSE) = <<>>
       THEN fRun' = Fatal(fRun)
       ELSE \E answers \in SentinelAnswers :
               fRun' = [fRun EXCEPT !.pc = "loop",
                                    !.assets = load_us_assets_from_ssot(<<>>, fEnv.ssot.rows, 1, FALSE),
                                    !.as_of = find_asof_from_sentinels(answers, 1, Str("today")),
                                    !.skipped = Skipped0(FetchTags \cup {"INVALID_SYMBOL"})]
    /\ UNCHANGED <<fEnv, fCache>>
    /\ UNCHANGED <<injVars, mergeVars, freezeVars, writeVars, calcVars, validVars, updVars>>

\* lines 257-279: what one answer does to the locals
FmpValAfterFetch(run, aid, sym, got) ==
    IF got.tag # "OK" \/ got.q = EmptyMap
    THEN [run EXCEPT !.skipped = SkipAppend(@, got.tag, sym),
                     !.attempts = Put(@, sym, Count(@, sym) + 1),
                     !.i = @ + 1]
    ELSE [run EXCEPT !.items = Put(@, aid, QuoteItem(sym, got.q)),
                     !.nonzero = IF ItemCounts(QuoteItem(sym, got.q)) THEN @ + 1 ELSE @,
                     !.attempts = Put(@, sym, Count(@, sym) + 1),
                     !.i = @ + 1]

\* lines 248-282: one iteration of the loop over the assets
FmpValFetch ==
    /\ fEnv.script = "valuation_fmp" /\ fRun.pc = "loop" /\ fRun.i <= Len(fRun.assets)
    /\ IF normalize_symbol(fRun.assets[fRun.i].sym) = <<>>
       THEN fRun' = [fRun EXCEPT !.skipped = SkipAppend(@, "INVALID_SYMBOL", fRun.assets[fRun.i].sym),
                                 !.i = @ + 1]
       ELSE \E resp \in QuoteResponses :
               fRun' = FmpValAfterFetch(fRun, fRun.assets[fRun.i].aid,
                                        normalize_symbol(fRun.assets[fRun.i].sym),
                                        fetch_quote_single(resp))
    /\ UNCHANGED <<fEnv, fCache>>
    /\ UNCHANGED <<injVars, mergeVars, freezeVars, writeVars, calcVars, validVars, updVars>>

\* lines 284-302: fail without writing, or write the payload
FmpValFinish ==
    /\ fEnv.script = "valuation_fmp" /\ fRun.pc = "loop" /\ fRun.i > Len(fRun.assets)
    /\ IF fRun.nonzero = 0
       THEN fRun' = Fatal(fRun) /\ UNCHANGED fCache
       ELSE /\ fCache' = CacheFile(fRun.as_of, "FMP", fRun.items, fRun.skipped)
            /\ fRun' = [fRun EXCEPT !.pc = "done", !.exit = 0, !.writes = @ + 1]
    /\ UNCHANGED fEnv
    /\ UNCHANGED <<injVars, mergeVars, freezeVars, writeVars, calcVars, validVars, updVars>>

\* ---- update_valuation_kr.py main() ---------------------------------------
\* lines 126-128: the SSOT file and its KR assets are required
KrStart ==
    /\ fEnv.script = "valuation_kr" /\ fRun.pc = "start"
    /\ fRun' = IF ~fEnv.ssot.exists \/ load_kr_assets_from_ssot(<<>>, fEnv.ssot.rows, 1) = <<>>
               THEN Fatal(fRun)
               ELSE [fRun EXCEPT !.pc = "fetch",
                                 !.assets = load_kr_assets_from_ssot(<<>>, fEnv.ssot.rows, 1)]
    /\ UNCHANGED <<fEnv, fCache>>
    /\ UNCHANGED <<injVars, mergeVars, freezeVars, writeVars, calcVars, validVars, updVars>>

\* lines 145-190 for the data frames of the day
KrBuilt(run, built) ==
    IF built.nonzero = 0
    THEN Fatal([run EXCEPT !.items = built.items])
    ELSE [run EXCEPT !.items = built.items, !.nonzero = built.nonzero,
                     !.pc = "done", !.exit = 0, !.writes = @ + 1]

\* lines 130-199: the trading day, the two data frames, the loop, the write
KrBuild ==
    /\ fEnv.script = "valuation_kr" /\ fRun.pc = "fetch"
    /\ \E found \in BOOLEAN, cap_df \in CapChoices, fun_df \in FunChoices :
          IF ~found \/ cap_df = EmptyMap \/ fun_df = EmptyMap
          THEN fRun' = Fatal(fRun) /\ UNCHANGED fCache
          ELSE /\ fRun' = KrBuilt(fRun, KrItems([items |-> EmptyMap, nonzero |-> 0],
                                                fRun.assets, 1, cap_df, fun_df))
               /\ fCache' = IF fRun'.pc = "done"
                            THEN CacheFile(Str("tradeday"), "PYKRX", fRun'.items, EmptyMap)
                            ELSE fCache
    /\ UNCHANGED fEnv
    /\ UNCHANGED <<injVars, mergeVars, freezeVars, writeVars, calcVars, validVars, updVars>>

\* ---- update_return_fmp.py main() -----------------------------------------
\* lines 313-337: the key and the SSOT file are required
RetStart ==
    /\ fEnv.script = "return_fmp" /\ fRun.pc = "start"
    /\ fRun' = IF MissingKey(fEnv.key) \/ ~fEnv.ssot.exists
               THEN Fatal(fRun)
               ELSE [fRun EXCEPT
                       !.pc = "loop",
                       !.assets = load_us_assets_from_ssot(<<>>, fEnv.ssot.rows, 1, TRUE),
                       !.syms = unique_symbols(load_us_assets_from_ssot(<<>>, fEnv.ssot.rows, 1, TRUE)),
                       !.skipped = Skipped0(FetchTags)]
    /\ UNCHANGED <<fEnv, fCache>>
    /\ UNCHANGED <<injVars, mergeVars, freezeVars, writeVars, calcVars, validVars, updVars>>

\* lines 343-350: what one answer does to the locals; save_sentinel_raw writes the raw
\* answer of a sentinel symbol to its own file
RetAfterFetch(run, sym, got) ==
    IF got.tag # "OK"
    THEN [run EXCEPT !.skipped = SkipAppend(@, got.tag, sym),
                     !.series = Put(@, sym, <<>>),
                     !.attempts = Put(@, sym, Count(@, sym) + 1),
                     !.i = @ + 1]
    ELSE [run EXCEPT !.series = Put(@, sym, parse_eod_series(got.raw)),
                     !.hist = IF sym \in SENTINEL_SYMBOLS THEN @ \cup {sym} ELSE @,
                     !.writes = IF sym \in SENTINEL_SYMBOLS THEN @ + 1 ELSE @,
                     !.attempts = Put(@, sym, Count(@, sym) + 1),
                     !.i = @ + 1]

\* lines 339-353: one iteration of the loop over the unique symbols
RetFetch ==
    /\ fEnv.script = "return_fmp" /\ fRun.pc = "loop" /\ fRun.i <= Len(fRun.syms)
    /\ \E resp \in EodResponses :
          fRun' = RetAfterFetch(fRun, fRun.syms[fRun.i], fetch_eod_full(resp))
    /\ UNCHANGED <<fEnv, fCache>>
    /\ UNCHANGED <<injVars, mergeVars, freezeVars, writeVars, calcVars, validVars, updVars>>

\* lines 355-386: the records of all assets, then the write
RetFinish ==
    /\ fEnv.script = "return_fmp" /\ fRun.pc = "loop" /\ fRun.i > Len(fRun.syms)
    /\ fRun' = [fRun EXCEPT !.items = RetItems(fRun.assets, fRun.series),
                            !.pc = "done", !.exit = 0, !.writes = @ + 1]
    /\ fCache' = CacheFile(EffectiveAsOf(fRun.assets, fRun.series), "FMP_STABLE",
                           RetItems(fRun.assets, fRun.series), fRun.skipped)
    /\ UNCHANGED fEnv
    /\ UNCHANGED <<injVars, mergeVars, freezeVars, writeVars, calcVars, validVars, updVars>>

NextFetch ==
    \/ FmpValStart \/ FmpValFetch \/ FmpValFinish
    \/ KrStart \/ KrBuild
    \/ RetStart \/ RetFetch \/ RetFinish

(***************************************************************************)
(* Claims about the cache updaters                                          *)
(***************************************************************************)
FetchEnded == fRun.pc \in {"done", "fatal"}

\* at least one of close, marketCap, pe is present and non-zero
MeaningfulRecord(it) ==
    \E k \in {"close", "marketCap", "pe_ttm"} : it[k] # Null /\ it[k] # Num(0)

\* C5: in update_valuation_fmp and update_valuation_kr, a run in which no fetched
\* record is meaningful (at least one of close, marketCap, pe present and non-zero)
\* ends as a fatal error with the cache file neither written nor modified; the cache
\* file is written only when at least one record is meaningful.
C5_NoMeaningfulRecordNoWrite ==
    fEnv.script \in {"valuation_fmp", "valuation_kr"} =>
       /\ (FetchEnded /\ \A a \in DOMAIN fRun.items : ~MeaningfulRecord(fRun.items[a]))
             => (fRun.pc = "fatal" /\ fRun.exit # 0 /\ fRun.writes = 0 /\ fCache = fEnv.old)
       /\ (fRun.writes > 0 \/ fCache # fEnv.old)
             => \E a \in DOMAIN fRun.items : MeaningfulRecord(fRun.items[a])

\* a valuation run over an existing cache fetched records, none meaningful, and ended
C5_Witness ==
    /\ fEnv.script \in {"valuation_fmp", "valuation_kr"}
    /\ fEnv.old.exists
    /\ FetchEnded
    /\ DOMAIN fRun.items # {}
    /\ \A a \in DOMAIN fRun.items : ~MeaningfulRecord(fRun.items[a])

\* C6: a request answered with HTTP 429 is retried (bounded loop, growing sleeps,
\* capped attempts) before the fetcher gives up on the symbol: a symbol recorded as
\* skipped under RATE_LIMIT has been requested more than once.
C6_RateLimitIsRetried ==
    fEnv.script \in {"valuation_fmp", "return_fmp"} =>
       \A t \in DOMAIN fRun.skipped :
          t = "RATE_LIMIT" => \A sym \in Range(fRun.skipped[t]) : Count(fRun.attempts, sym) > 1

\* C7: after a run of a returns or valuation cache updater in which the fetch for a
\* symbol failed, the values the cache file held for that symbol before the run are
\* still in the file.
C7_FailedSymbolKeepsStoredValues ==
    (fEnv.script \in {"valuation_fmp", "return_fmp"} /\ fRun.pc = "done") =>
       \A j \in 1..Len(fRun.assets) :
          (/\ fRun.assets[j].sym \in SkippedSyms(fRun.skipped)
           /\ fRun.assets[j].aid \in DOMAIN fEnv.old.items)
             => /\ fRun.assets[j].aid \in DOMAIN fCache.items
                /\ fCache.items[fRun.assets[j].aid] = fEnv.old.items[fRun.assets[j].aid]

(***************************************************************************)
(* build_freeze.py main(): the loop over the themes of index.json           *)
(***************************************************************************)
\* an entry of the "themes" list: a dict (themeId, id), a string, or something else;
\* "" stands for a missing or empty id
IndexEntry(kind, themeId, id) == [kind |-> kind, themeId |-> themeId, id |-> id]

\* lines 500-507: theme_id of an entry ("" when there is none)
ThemeIdOf(t) ==
    IF t.kind = "dict" THEN (IF t.themeId # "" THEN t.themeId ELSE t.id)
    ELSE IF t.kind = "str" THEN t.id
    ELSE ""

NoIndex == [exists |-> FALSE, kind |-> "", themes |-> <<>>]
IndexFile(kind, themes) == [exists |-> TRUE, kind |-> kind, themes |-> themes]

\* def load_themes(): the "themes" of a dict, a list as it is; stops the run on a
\* missing file, another JSON type or an empty list
load_themes(index) ==
    IF ~index.exists THEN [fatal |-> TRUE, themes |-> <<>>]
    ELSE IF index.kind \notin {"dict", "list"} THEN [fatal |-> TRUE, themes |-> <<>>]
    ELSE [fatal |-> index.themes = <<>>, themes |-> index.themes]

\* the number of files a write_json of the theme directory touches (the public mirror)
WritesPer(hasPublic) == IF hasPublic THEN 2 ELSE 1

\* lines 499-532: one iteration of the loop, for an entry whose theme file exists
FreezeTheme(run, theme_id, r, hasPublic) ==
    IF r.raised
    THEN [run EXCEPT !.pc = "crashed", !.exit = 1, !.failed = Append(@, theme_id)]
    ELSE [run EXCEPT !.i = @ + 1,
                     !.processed = Append(@, theme_id),
                     !.total_updated = @ + r.updated,
                     !.writes = IF r.wrote THEN @ + WritesPer(hasPublic) ELSE @]

ZRun0 ==
    [pc |-> "start", themes |-> <<>>, i |-> 1, processed |-> <<>>, failed |-> <<>>,
     total_updated |-> 0, writes |-> 0, exit |-> -1]

\* ---- inputs ---------------------------------------------------------------
ThemeIds == {"T_001", "T_002", "T_003"}

IndexChoices ==
    { NoIndex, IndexFile("dict", <<>>), IndexFile("other", <<>>),
      IndexFile("list", <<IndexEntry("str", "", "T_001"), IndexEntry("str", "", "T_002")>>),
      IndexFile("dict", <<IndexEntry("dict", "T_002", "x"), IndexEntry("num", "", ""),
                          IndexEntry("dict", "", "T_003"), IndexEntry("str", "", "T_001")>>) }

BadIdFile == <<ThemeNode, AssetNode(Num(7), "KR", T1, TRUE, EmptyMap)>>

ThemeFileChoices ==
    { <<ThemeNode>>,
      <<ThemeNode, AssetNode(Str("A_001"), "KR", T1, Stored.isDict, Stored.metrics)>>,
      <<AssetNode(Str("A_002"), "US", TUS, FALSE, EmptyMap)>>,
      BadIdFile }

FreezeCaches ==
    { NoCaches,
      [NoCaches EXCEPT !.krVal = K1 :> (("close" :> Num(0)) @@ ("marketCap" :> Num(1))),
                       !.retAll = "A_001" :> ("return_3d" :> Num(0))] }

InitFreeze ==
    /\ \E index \in IndexChoices, c \in FreezeCaches, hasPublic \in BOOLEAN :
          \E present \in SUBSET ThemeIds :
             /\ zFiles \in [present -> ThemeFileChoices]
             /\ zEnv = [script |-> "build_freeze", index |-> index, caches |-> c,
                        hasPublic |-> hasPublic, files0 |-> zFiles]
    /\ zRun = ZRun0
    /\ IdleInject /\ IdleMerge /\ IdleFetch /\ IdleWrite /\ IdleCalc /\ IdleValid /\ IdleUpdate

\* lines 482-492: load_themes(), then the caches
FreezeStart ==
    /\ zEnv.script = "build_freeze" /\ zRun.pc = "start"
    /\ zRun' = IF load_themes(zEnv.index).fatal
               THEN [zRun EXCEPT !.pc = "fatal", !.exit = 1]
               ELSE [zRun EXCEPT !.pc = "loop", !.themes = load_themes(zEnv.index).themes]
    /\ UNCHANGED <<zEnv, zFiles>>
    /\ UNCHANGED <<injVars, mergeVars, fetchVars, writeVars, calcVars, validVars, updVars>>

\* lines 499-532: one iteration of the loop over the themes; an exception raised by
\* inject_metrics_into_theme is not caught and ends the process
FreezeNext ==
    /\ zEnv.script = "build_freeze" /\ zRun.pc = "loop" /\ zRun.i <= Len(zRun.themes)
    /\ IF ThemeIdOf(zRun.themes[zRun.i]) = "" \/ ThemeIdOf(zRun.themes[zRun.i]) \notin DOMAIN zFiles
       THEN zRun' = [zRun EXCEPT !.i = @ + 1] /\ UNCHANGED zFiles
       ELSE \E r \in {inject_metrics_into_theme(zFiles[ThemeIdOf(zRun.themes[zRun.i])], zEnv.caches)} :
               /\ zRun' = FreezeTheme(zRun, ThemeIdOf(zRun.themes[zRun.i]), r, zEnv.hasPublic)
               /\ zFiles' = [zFiles EXCEPT ![ThemeIdOf(zRun.themes[zRun.i])] = r.file]
    /\ UNCHANGED zEnv
    /\ UNCHANGED <<injVars, mergeVars, fetchVars, writeVars, calcVars, validVars, updVars>>

\* lines 534-542: rebuild_index(themes) writes index.json back with the same themes
FreezeRebuildIndex ==
    /\ zEnv.script = "build_freeze" /\ zRun.pc = "loop" /\ zRun.i > Len(zRun.themes)
    /\ zRun' = [zRun EXCEPT !.pc = "done", !.exit = 0, !.writes = @ + WritesPer(zEnv.hasPublic)]
    /\ UNCHANGED <<zEnv, zFiles>>
    /\ UNCHANGED <<injVars, mergeVars, fetchVars, writeVars, calcVars, validVars, updVars>>

NextFreeze == FreezeStart \/ FreezeNext \/ FreezeRebuildIndex

\* ---- one run of one of the scripts above ---------------------------------
InitRun == InitFetch \/ InitFreeze

NextRun == NextFetch \/ NextFreeze

SpecRun == InitRun /\ [][NextRun]_vars

(***************************************************************************)
(* Claims about a run of a script                                           *)
(***************************************************************************)
\* the loop of update_valuation_fmp over the assets reached its end, and every asset
\* has a record or is recorded under a reason tag
FetchLoopCompleted ==
    /\ fRun.i > Len(fRun.assets)
    /\ \A j \in 1..Len(fRun.assets) :
          \/ fRun.assets[j].aid \in DOMAIN fRun.items
          \/ \E t \in DOMAIN fRun.skipped :
                fRun.assets[j].sym \in Range(fRun.skipped[t])

\* every theme listed in index.json whose file exists was processed, or is the one
\* whose processing raised
EveryThemeHandled ==
    \A j \in 1..Len(zRun.themes) :
       ThemeIdOf(zRun.themes[j]) \in DOMAIN zFiles
          => ThemeIdOf(zRun.themes[j]) \in Range(zRun.processed) \cup Range(zRun.failed)

\* C9: a per-item failure never aborts a run: a symbol whose fetch fails is recorded
\* under its reason tag and omitted, a theme whose processing raises is left
\* unmodified, and every remaining symbol or theme of the list is still processed.
C9_ItemFailureNeverAborts ==
    /\ (fEnv.script = "valuation_fmp" /\ FetchEnded /\ fRun.assets # <<>>)
          => FetchLoopCompleted
    /\ (zEnv.script = "build_freeze" /\ zRun.pc \in {"done", "crashed"})
          => /\ EveryThemeHandled
             /\ \A id \in Range(zRun.failed) : zFiles[id] = zEnv.files0[id]

\* C10: when a required local input is missing (index.json for build_freeze, the
\* SSOT file or the API key for the FMP fetchers), the script ends with a non-zero
\* fatal error and no output, cache or theme file has been written or modified.
C10_MissingInputFatalBeforeAnyWrite ==
    /\ (/\ fEnv.script \in {"valuation_fmp", "return_fmp"}
        /\ fEnv.key \in {"", " "} \/ ~fEnv.ssot.exists
        /\ fRun.pc # "start")
          => (fRun.pc = "fatal" /\ fRun.exit # 0 /\ fRun.writes = 0 /\ fCache = fEnv.old)
    /\ (zEnv.script = "build_freeze" /\ ~zEnv.index.exists /\ zRun.pc # "start")
          => (zRun.pc = "fatal" /\ zRun.exit # 0 /\ zRun.writes = 0 /\ zFiles = zEnv.files0)

\* an FMP fetcher that found its key but no SSOT file has ended, over an existing cache
C10_Witness ==
    /\ fEnv.script \in {"valuation_fmp", "return_fmp"}
    /\ fEnv.key = "k" /\ ~fEnv.ssot.exists /\ fEnv.old.exists
    /\ fRun.pc = "fatal"

(***************************************************************************)
(* The file writers.  A file's text is a sequence of pieces; open(path,     *)
(* "w") creates or empties the file, each write appends a piece, and the    *)
(* process can be killed between any two steps.                             *)
(***************************************************************************)
NoDiskFile == [exists |-> FALSE, data |-> <<>>]
DiskFile(data) == [exists |-> TRUE, data |-> data]

\* the text a writer is asked to write, in k pieces
NewData(k) == [j \in 1..k |-> j]

\* build_freeze.write_json (lines 68-76) and the CSV part of
\* sccripts/build_master_from_fragments.py main (lines 219-231) write a temporary
\* file first; the others open the target itself:
\*   update_return_fmp.write_json (77-79), update_valuation_fmp.write_json (50-52),
\*   update_valuation_kr.write_json (18-20), update_theme_metrics.save_theme_json
\*   (449-451), scripts/build_master_from_fragments.py write_csv (126-132) and the
\*   report of sccripts/build_master_from_fragments.py main (236-242)
TmpWriters == {"build_freeze.write_json", "sccripts.main.csv"}
DirectWriters ==
    {"update_return_fmp.write_json", "update_valuation_fmp.write_json",
     "update_valuation_kr.write_json", "update_theme_metrics.save_theme_json",
     "scripts.write_csv", "sccripts.main.report"}

\* the writers that compare the new text with the file's text first and leave an
\* equal file alone (sccripts main, lines 220-231 and 239-242)
ComparingWriters == {"sccripts.main.csv", "sccripts.main.report"}

UsesTmp(writer) == writer \in TmpWriters

InitWrite ==
    /\ \E writer \in TmpWriters \cup DirectWriters, k \in 1..MaxChunks :
          \E old \in {NoDiskFile, DiskFile(<<0>>), DiskFile(NewData(1))} :
             /\ wEnv = [writer |-> writer, old |-> old, new |-> NewData(k)]
             /\ wDisk = [target |-> old, tmp |-> NoDiskFile]
    /\ wRun = [pc |-> "start", n |-> 0]
    /\ IdleInject /\ IdleMerge /\ IdleFetch /\ IdleFreeze /\ IdleCalc /\ IdleValid /\ IdleUpdate

\* sccripts main writes its report only if the text differs from the file's
WriteNothing ==
    /\ wEnv.writer = "sccripts.main.report" /\ wRun.pc = "start"
    /\ wEnv.old = DiskFile(wEnv.new)
    /\ wRun' = [wRun EXCEPT !.pc = "done"]
    /\ UNCHANGED <<wEnv, wDisk>>
    /\ UNCHANGED <<injVars, mergeVars, fetchVars, freezeVars, calcVars, validVars, updVars>>

\* open(..., "w") / Path.write_text: the file opened is created or emptied
WriteOpen ==
    /\ wEnv.writer # "none" /\ wRun.pc = "start"
    /\ wEnv.writer = "sccripts.main.report" => wEnv.old # DiskFile(wEnv.new)
    /\ wDisk' = IF UsesTmp(wEnv.writer)
                THEN [wDisk EXCEPT !.tmp = DiskFile(<<>>)]
                ELSE [wDisk EXCEPT !.target = DiskFile(<<>>)]
    /\ wRun' = [wRun EXCEPT !.pc = "writing"]
    /\ UNCHANGED wEnv
    /\ UNCHANGED <<injVars, mergeVars, fetchVars, freezeVars, calcVars, validVars, updVars>>

\* one piece of the text reaches the file opened
WriteChunk ==
    /\ wRun.pc = "writing" /\ wRun.n < Len(wEnv.new)
    /\ wDisk' = IF UsesTmp(wEnv.writer)
                THEN [wDisk EXCEPT !.tmp.data = Append(@, wEnv.new[wRun.n + 1])]
                ELSE [wDisk EXCEPT !.target.data = Append(@, wEnv.new[wRun.n + 1])]
    /\ wRun' = [wRun EXCEPT !.n = @ + 1]
    /\ UNCHANGED wEnv
    /\ UNCHANGED <<injVars, mergeVars, fetchVars, freezeVars, calcVars, validVars, updVars>>

\* the file is closed; a temporary file is renamed over the target (tmp.replace), or
\* removed when sccripts main finds its text equal to the target's
WriteFinish ==
    /\ wRun.pc = "writing" /\ wRun.n = Len(wEnv.new)
    /\ wDisk' = IF ~UsesTmp(wEnv.writer) THEN wDisk
                ELSE IF wEnv.writer \in ComparingWriters /\ wDisk.target = wDisk.tmp
                THEN [wDisk EXCEPT !.tmp = NoDiskFile]
                ELSE [target |-> wDisk.tmp, tmp |-> NoDiskFile]
    /\ wRun' = [wRun EXCEPT !.pc = "done"]
    /\ UNCHANGED wEnv
    /\ UNCHANGED <<injVars, mergeVars, fetchVars, freezeVars, calcVars, validVars, updVars>>

\* the process is killed
Kill ==
    /\ wRun.pc \in {"start", "writing"}
    /\ wRun' = [wRun EXCEPT !.pc = "killed"]
    /\ UNCHANGED <<wEnv, wDisk>>
    /\ UNCHANGED <<injVars, mergeVars, fetchVars, freezeVars, calcVars, validVars, updVars>>

NextWrite == WriteNothing \/ WriteOpen \/ WriteChunk \/ WriteFinish \/ Kill

SpecWrite == InitWrite /\ [][NextWrite]_vars

\* C8: every script that writes a JSON or CSV output writes a temporary file and
\* renames it over the target, so that a process killed at any point of a write
\* leaves the target with its complete previous content or the complete new content.
C8_KilledWriteLeavesOldOrNew ==
    wRun.pc = "killed" => wDisk.target \in {wEnv.old, DiskFile(wEnv.new)}

(***************************************************************************)
(* The returns calculators as pure functions: a call takes a price series   *)
(* and gives the returns.  The series of the model are series of trading    *)
(* days that end on a day of 2024; the close k trading days before the last *)
(* one is SeriesClose(k, v).                                                *)
(***************************************************************************)
\* the date k trading days before the last one, when the last year has e rows so far
\* and a year has 252 trading days
SeriesDate(k, e) ==
    IF k < e THEN 2024000 + (e - k)
    ELSE (2023 - ((k - e) \div 252)) * 1000 + (252 - ((k - e) % 252))

\* the last close, the closes an odd number of days back, the other closes
SeriesClose(k, v) == IF k = 0 THEN v[1] ELSE IF k % 2 = 1 THEN v[2] ELSE v[3]

Series(len, e, v) ==
    [i \in 1..len |-> [d |-> SeriesDate(len - i, e), c |-> SeriesClose(len - i, v)]]

\* ---- update_return_kr.py -----------------------------------------------------
RETURN_KEYS_KR == <<"return_3d", "return_7d", "return_1m", "return_ytd", "return_1y", "return_3y">>
HORIZON_TO_TRADING_DAYS_KR ==
    [return_3d |-> 3, return_7d |-> 7, return_1m |-> 21, return_1y |-> 252, return_3y |-> 756]

\* def pct_return(last_close, prev_close) of update_return_kr.py
pct_return_kr(last_close, prev_close) ==
    IF last_close = Null \/ prev_close = Null THEN Null
    ELSE IF prev_close.n = 0 THEN Null
    ELSE Num((last_close.n * 100) \div prev_close.n - 100)

\* def compute_returns_for_ticker(ticker, as_of); closes is what fetch_close_series
\* returned (<<>> for None)
compute_returns_for_ticker(closes, as_of) ==
    IF closes = <<>>
    THEN [as_of |-> as_of, ret |-> [k \in Range(RETURN_KEYS_KR) |-> Null]]
    ELSE [as_of |-> closes[Len(closes)].d,
          ret |-> [k \in Range(RETURN_KEYS_KR) |->
                     IF k = "return_ytd"
                     THEN pct_return_kr(Num(closes[Len(closes)].c), Num(FirstOfYear(closes).c))
                     ELSE IF Len(closes) <= HORIZON_TO_TRADING_DAYS_KR[k] THEN Null
                     ELSE pct_return_kr(Num(closes[Len(closes)].c),
                                        Num(closes[Len(closes) - HORIZON_TO_TRADING_DAYS_KR[k]].c))]]

\* ---- update_theme_metrics.py ---------------------------------------------------
\* A return of update_theme_metrics.py is a decimal number held in units of 0.00001:
\* 150000 is 1.5.  The closes of the model make every quotient exact.
TM_KEYS == {"ret3d", "ret7d", "ret1m", "retYtd", "ret1y", "ret3y"}
TM_OFFSETS == [ret3d |-> 3, ret7d |-> 7, ret1m |-> 21, ret1y |-> 252, ret3y |-> 756]

\* a faulty variant: the boundary 1.5 is excluded
normalize_pct_strict(v) == IF (IF v < 0 THEN -v ELSE v) < 150000 THEN v * 100 ELSE v

\* def normalize_pct(v): v * 100.0 if abs(v) <= 1.5 else v
normalize_pct(v) == IF (IF v < 0 THEN -v ELSE v) <= 150000 THEN v * 100 ELSE v

\* round(x, 4): to the nearest multiple of 0.0001, a tie to the even one
round4(x) ==
    IF x % 10 < 5 THEN (x \div 10) * 10
    ELSE IF x % 10 > 5 THEN (x \div 10 + 1) * 10
    ELSE IF (x \div 10) % 2 = 0 THEN (x \div 10) * 10
    ELSE (x \div 10 + 1) * 10

\* def pct_return(latest, past) of update_theme_metrics.py
pct_return_tm(latest, past) ==
    IF latest = Null \/ past = Null THEN Null
    ELSE IF past.n = 0 THEN Null
    ELSE Num((latest.n * 10000000) \div past.n - 10000000)

\* def n_trading_days_ago(n) inside compute_returns_from_close
n_trading_days_ago(df, n) == IF Len(df) <= n THEN Null ELSE Num(df[Len(df) - n].c)

\* a faulty variant: the year-to-date return is left out
RawReturnNoYtd(df, k) ==
    IF k = "retYtd" THEN Null
    ELSE pct_return_tm(Num(df[Len(df)].c), n_trading_days_ago(df, TM_OFFSETS[k]))

\* lines 141-152: the returns before normalization
RawReturn(df, k) ==
    IF k = "retYtd" THEN pct_return_tm(Num(df[Len(df)].c), Num(FirstOfYear(df).c))
    ELSE pct_return_tm(Num(df[Len(df)].c), n_trading_days_ago(df, TM_OFFSETS[k]))

\* lines 154-157: normalize + round
NormalizeAndRound(v) == IF v = Null THEN Null ELSE Num(round4(normalize_pct(v.n)))

\* def compute_returns_from_close(df): df is the frame's rows (Date, Close)
compute_returns_from_close(df) ==
    IF df = <<>> THEN [k \in TM_KEYS |-> Null]
    ELSE [k \in TM_KEYS |-> NormalizeAndRound(RawReturn(df, k))]

\* ---- inputs -----------------------------------------------------------------
SeriesLens == {n + j : n \in {0, 3, 7, 21, 252, 756}, j \in 0..MaxExtra}

\* how many rows the last year of the series has, when the series is long enough
LastYearRows == {1, 2, 30}

SeriesCloses(calc) ==
    IF calc = "compute_returns_from_close"
    THEN {<<a, b, c>> : a \in {0, 64, 128, 129, 131}, b \in {0, 64, 128}, c \in {0, 64, 128}}
    ELSE {<<a, b, c>> : a \in {0, 1, 2, 4}, b \in {0, 1, 2, 4}, c \in {0, 1, 2, 4}}

ReturnCalcs ==
    {"compute_returns_from_series", "compute_returns_for_ticker", "compute_returns_from_close"}

\* arguments of normalize_pct: 0.10, 1.5, -1.5, 1.50001, -1.50001, 12.0, 0, -0.5
NormalizeArgs == {10000, 150000, -150000, 150001, -150001, 1200000, 0, -50000}

CalcCall(calc, len, e, v, x, sent) ==
    [calc |-> calc, len |-> len, e |-> e, v |-> v, x |-> x, sent |-> sent]

CalcResult(pc, ret, val) == [pc |-> pc, ret |-> ret, val |-> val]

\* the series a call is given
ClosesOf(in) == Series(in.len, in.e, in.v)

(***************************************************************************)
(* The calculators as a state machine: one call, then its result            *)
(***************************************************************************)
InitCalc ==
    /\ \/ \E calc \in ReturnCalcs, len \in SeriesLens, e \in LastYearRows :
             \E v \in SeriesCloses(calc) : calcIn = CalcCall(calc, len, e, v, 0, <<>>)
       \/ \E x \in NormalizeArgs : calcIn = CalcCall("normalize_pct", 0, 1, <<0, 0, 0>>, x, <<>>)
       \/ \E sent \in SentinelAnswers :
             calcIn = CalcCall("find_asof_from_sentinels", 0, 1, <<0, 0, 0>>, 0, sent)
    /\ calcOut = CalcResult("call", EmptyMap, Null)
    /\ IdleInject /\ IdleMerge /\ IdleFetch /\ IdleFreeze /\ IdleWrite /\ IdleValid /\ IdleUpdate

\* update_return_fmp.py main, lines 357-364: the record of an asset whose series is closes
CallReturnsFmp ==
    /\ calcIn.calc = "compute_returns_from_series" /\ calcOut.pc = "call"
    /\ calcOut' = CalcResult("done", RetItem(AAPL, AAPL :> ClosesOf(calcIn)), Null)
    /\ UNCHANGED calcIn
    /\ UNCHANGED <<injVars, mergeVars, fetchVars, freezeVars, writeVars, validVars, updVars>>

\* update_return_kr.py compute_returns_for_ticker
CallReturnsKr ==
    /\ calcIn.calc = "compute_returns_for_ticker" /\ calcOut.pc = "call"
    /\ calcOut' = CalcResult("done", compute_returns_for_ticker(ClosesOf(calcIn), 2024000 + calcIn.e).ret,
                             Null)
    /\ UNCHANGED calcIn
    /\ UNCHANGED <<injVars, mergeVars, fetchVars, freezeVars, writeVars, validVars, updVars>>

\* update_theme_metrics.py compute_returns_from_close
CallReturnsTm ==
    /\ calcIn.calc = "compute_returns_from_close" /\ calcOut.pc = "call"
    /\ calcOut' = CalcResult("done", compute_returns_from_close(ClosesOf(calcIn)), Null)
    /\ UNCHANGED calcIn
    /\ UNCHANGED <<injVars, mergeVars, fetchVars, freezeVars, writeVars, validVars, updVars>>

\* update_theme_metrics.py normalize_pct
CallNormalizePct ==
    /\ calcIn.calc = "normalize_pct" /\ calcOut.pc = "call"
    /\ calcOut' = CalcResult("done", EmptyMap, Num(normalize_pct(calcIn.x)))
    /\ UNCHANGED calcIn
    /\ UNCHANGED <<injVars, mergeVars, fetchVars, freezeVars, writeVars, validVars, updVars>>

\* update_valuation_fmp.py find_asof_from_sentinels
CallFindAsOf ==
    /\ calcIn.calc = "find_asof_from_sentinels" /\ calcOut.pc = "call"
    /\ calcOut' = CalcResult("done", EmptyMap, find_asof_from_sentinels(calcIn.sent, 1, Str("today")))
    /\ UNCHANGED calcIn
    /\ UNCHANGED <<injVars, mergeVars, fetchVars, freezeVars, writeVars, validVars, updVars>>

NextCalc == CallReturnsFmp \/ CallReturnsKr \/ CallReturnsTm \/ CallNormalizePct \/ CallFindAsOf

SpecCalc == InitCalc /\ [][NextCalc]_vars

(***************************************************************************)
(* Claims about the calculators                                             *)
(***************************************************************************)
\* the offsets of the horizons, by the key of each calculator
ClaimOffsets ==
    [return_3d |-> 3, return_7d |-> 7, return_1m |-> 21, return_1y |-> 252, return_3y |-> 756,
     ret3d |-> 3, ret7d |-> 7, ret1m |-> 21, ret1y |-> 252, ret3y |-> 756]

\* the close n positions before the last one of the call's series
CloseBack(n) == SeriesClose(n, calcIn.v)

\* C11: in compute_returns_from_series (US) and compute_returns_for_ticker (KR), for
\* each horizon with offset n in {3, 7, 21, 252, 756}, the return is null when the
\* series has fewer than n+1 points or the close n positions before the last one is
\* zero, and otherwise it is (last_close / that close - 1) * 100; the call always
\* returns.
C11_HorizonReturns ==
    (calcIn.calc \in {"compute_returns_from_series", "compute_returns_for_ticker"}
       /\ calcOut.pc = "done") =>
       \A k \in {"return_3d", "return_7d", "return_1m", "return_1y", "return_3y"} :
          IF calcIn.len < ClaimOffsets[k] + 1 \/ CloseBack(ClaimOffsets[k]) = 0
          THEN calcOut.ret[k] = Null
          ELSE /\ calcOut.ret[k] # Null
               /\ calcOut.ret[k].n * CloseBack(ClaimOffsets[k])
                     = (CloseBack(0) - CloseBack(ClaimOffsets[k])) * 100

\* a call of the US calculator on a series of 757 points whose closes at the odd
\* offsets are zero returned: return_3d is null, return_3y is +100
C11_Witness ==
    /\ calcIn.calc = "compute_returns_from_series" /\ calcOut.pc = "done"
    /\ calcIn.len = 757 /\ calcIn.v = <<4, 0, 2>>
    /\ calcOut.ret["return_3d"] = Null
    /\ calcOut.ret["return_3y"] = Num(100)

\* the call's series has at least one point and one price throughout
ConstantSeries == calcIn.len >= 1 /\ calcIn.v[2] = calcIn.v[1] /\ calcIn.v[3] = calcIn.v[1]

HorizonKeys(calc) ==
    IF calc = "compute_returns_from_close" THEN {"ret3d", "ret7d", "ret1m", "ret1y", "ret3y"}
    ELSE {"return_3d", "return_7d", "return_1m", "return_1y", "return_3y"}

YtdKey(calc) == IF calc = "compute_returns_from_close" THEN "retYtd" ELSE "return_ytd"

\* C12 as stated: for a constant-price series, every return produced by the returns
\* calculator (the five horizons and year-to-date) is 0.0, not null.
C12_ConstantSeriesAllZero ==
    (calcIn.calc \in {"compute_returns_from_series", "compute_returns_from_close"}
       /\ calcOut.pc = "done" /\ ConstantSeries) =>
       \A k \in HorizonKeys(calcIn.calc) \cup {YtdKey(calcIn.calc)} : calcOut.ret[k] = Num(0)

\* C12 amended: for a constant-price series whose price is not zero, the year-to-date
\* return is 0.0 and the return of every horizon the series is long enough for (more
\* points than the offset) is 0.0, not null; the other horizons are null.
C12_ConstantSeriesZeroWhereCovered ==
    (calcIn.calc \in {"compute_returns_from_series", "compute_returns_from_close"}
       /\ calcOut.pc = "done" /\ ConstantSeries /\ calcIn.v[1] # 0) =>
       /\ calcOut.ret[YtdKey(calcIn.calc)] = Num(0)
       /\ \A k \in HorizonKeys(calcIn.calc) :
             calcOut.ret[k] = IF calcIn.len > ClaimOffsets[k] THEN Num(0) ELSE Null

\* compute_returns_from_close returned for a constant series of 757 points at 128
C12_Witness ==
    /\ calcIn.calc = "compute_returns_from_close" /\ calcOut.pc = "done"
    /\ calcIn.len = 757 /\ calcIn.v = <<128, 128, 128>>
    /\ \A k \in TM_KEYS : calcOut.ret[k] = Num(0)

\* the offset, from the last point, of the earliest point of the call's series dated in
\* the year of the last point
FirstOfYearOffset == (IF calcIn.e < calcIn.len THEN calcIn.e ELSE calcIn.len) - 1

\* r is x rounded to 4 decimal places (x and r in units of 0.00001)
IsRounded(r, x) == r % 10 = 0 /\ r - x <= 5 /\ x - r <= 5

\* normalization as the specification words it: magnitudes up to 1.5 are fractions
ClaimNormalize(x) == IF x >= -150000 /\ x <= 150000 THEN x * 100 ELSE x

\* the return of the call for key k is the one computed against the base close b: null
\* on a zero base, (last / b - 1) * 100 otherwise (normalized and rounded by
\* update_theme_metrics)
ReturnAgainst(k, b) ==
    IF b = 0 THEN calcOut.ret[k] = Null
    ELSE IF calcIn.calc = "compute_returns_from_close"
    THEN /\ calcOut.ret[k] # Null
         /\ IsRounded(calcOut.ret[k].n, ClaimNormalize((CloseBack(0) * 10000000) \div b - 10000000))
    ELSE /\ calcOut.ret[k] # Null
         /\ calcOut.ret[k].n * b = (CloseBack(0) - b) * 100

\* the series [(2024-01-02, 100), (2024-06-01, 150)]
ExampleSeries == <<[d |-> 2024002, c |-> 100], [d |-> 2024153, c |-> 150]>>

\* C13: the year-to-date return is computed against the earliest close dated in the
\* calendar year of the latest point, never against a close of an earlier year; the
\* series [(2024-01-02, 100), (2024-06-01, 150)] gives 50.0.
C13_YtdUsesFirstCloseOfYear ==
    /\ (calcIn.calc \in {"compute_returns_from_series", "compute_returns_from_close"}
          /\ calcOut.pc = "done" /\ calcIn.len >= 1)
          => /\ SeriesDate(FirstOfYearOffset, calcIn.e) \div 1000 = SeriesDate(0, calcIn.e) \div 1000
             /\ ReturnAgainst(YtdKey(calcIn.calc), CloseBack(FirstOfYearOffset))
    /\ compute_returns_from_series(ExampleSeries).ret["return_ytd"] = Num(50)
    /\ compute_returns_from_close(ExampleSeries)["retYtd"] = Num(5000000)

\* the US calculator returned for a series that starts before the last year, whose
\* first close of the year differs from the close before it
C13_Witness ==
    /\ calcIn.calc = "compute_returns_from_series" /\ calcOut.pc = "done"
    /\ calcIn.len = 253 /\ calcIn.e = 2 /\ calcIn.v = <<4, 2, 1>>
    /\ calcOut.ret["return_ytd"] = Num(100)

\* C14: normalize_pct multiplies a value by 100 exactly when its absolute value is at
\* most 1.5 (1.5 included) and leaves it unchanged otherwise (0.10 -> 10.0,
\* 12.0 -> 12.0), and compute_returns_from_close applies it to every non-null return
\* before rounding to 4 decimal places.
C14_NormalizeThenRound ==
    /\ (calcIn.calc = "normalize_pct" /\ calcOut.pc = "done")
          => calcOut.val = Num(ClaimNormalize(calcIn.x))
    /\ (calcIn.calc = "compute_returns_from_close" /\ calcOut.pc = "done" /\ calcIn.len >= 1)
          => /\ calcOut.ret["retYtd"] # Null
                   => ReturnAgainst("retYtd", CloseBack(FirstOfYearOffset))
             /\ \A k \in HorizonKeys(calcIn.calc) :
                   calcOut.ret[k] # Null
                      => calcIn.len > ClaimOffsets[k] /\ ReturnAgainst(k, CloseBack(ClaimOffsets[k]))
    /\ normalize_pct(10000) = 1000000
    /\ normalize_pct(1200000) = 1200000

\* compute_returns_from_close returned 78.125 for a return of 0.78125 per cent, and
\* 2.3438 for one of 2.34375 per cent
C14_Witness ==
    /\ calcIn.calc = "compute_returns_from_close" /\ calcOut.pc = "done"
    /\ calcIn.len = 4 /\ calcIn.e = 1
    /\ \/ calcIn.v = <<129, 128, 64>> /\ calcOut.ret["ret3d"] = Num(7812500)
       \/ calcIn.v = <<131, 128, 64>> /\ calcOut.ret["ret3d"] = Num(234380)

\* the dates the sentinels of the call gave (a quote fetched with a usable timestamp)
SentinelDates ==
    {SentinelDate(calcIn.sent[i]) : i \in 1..Len(calcIn.sent)} \ {Null}

\* C15: the asOf date of the US valuation fetcher is the latest date among the
\* sentinels that returned a usable timestamp, for any combination of sentinel
\* responses.
C15_AsOfIsFreshestSentinel ==
    (calcIn.calc = "find_asof_from_sentinels" /\ calcOut.pc = "done" /\ SentinelDates # {})
       => /\ calcOut.val \in SentinelDates
          /\ \A d \in SentinelDates : d.n <= calcOut.val.n

(***************************************************************************)
(* Claims about the injector's writes                                       *)
(***************************************************************************)
\* some ASSET node of the file lacks a metrics object or one of the return keys
LacksShape(file) ==
    \E i \in 1..Len(file) :
       /\ file[i].type = "ASSET"
       /\ ~file[i].isDict \/ ~(Range(RETURN_KEYS) \subseteq DOMAIN file[i].metrics)

\* C16: if any ASSET node of a theme lacks a metrics object or any of the expected
\* return keys, a run of the injector adds the missing keys (with null, unless a cache
\* gives the value) and writes the theme file even when no metric value changed; when
\* no shape was normalized and no value changed, the theme file is not written.
C16_WritesExactlyWhenSomethingChanged ==
    [][ injSame' =>
          /\ LacksShape(themeFile)
                => /\ injLast'.wrote
                   /\ ~LacksShape(themeFile')
                   /\ \A i \in 1..Len(themeFile) :
                         (themeFile[i].type = "ASSET" /\ injLast'.updated = 0)
                            => \A k \in Range(RETURN_KEYS) \ DOMAIN themeFile[i].metrics :
                                  themeFile'[i].metrics[k] = Null
          /\ (~LacksShape(themeFile) /\ themeFile' = themeFile) => ~injLast'.wrote
      ]_vars

(***************************************************************************)
(* scripts/validate_theme_json.py, scripts/build_theme_index.py and the     *)
(* edge list of build_freeze._normalize_theme_obj                           *)
(***************************************************************************)
\* the longest node list and edge list of a theme document of the model
MaxNodes == 2
MaxEdges == 1

\* a JSON member that is absent (or no list), and one that is the list q
NoList == [isList |-> FALSE, items |-> <<>>]
ListOf(q) == [isList |-> TRUE, items |-> q]

\* a node and an edge of a theme document; isDict is FALSE for an entry that is no object
VNode(id, type) == [isDict |-> TRUE, id |-> id, type |-> type, name |-> ""]
NamedNode(id, type, name) == [isDict |-> TRUE, id |-> id, type |-> type, name |-> name]
VEdge(from, to, type) == [isDict |-> TRUE, from |-> from, to |-> to, type |-> type]
NotAnObject == [isDict |-> FALSE, id |-> "", type |-> "", name |-> ""]
NotAnEdge == [isDict |-> FALSE, from |-> "", to |-> "", type |-> ""]

\* a theme file: whether json.load succeeds on it, and the document's themeId and
\* themeName ("" when the member is absent), nodes, and members "edges" and "links"
ThemeDoc(themeId, themeName, nodes, edges, links) ==
    [readable |-> TRUE, themeId |-> themeId, themeName |-> themeName, nodes |-> nodes,
     edges |-> edges, links |-> links]
Unreadable ==
    [readable |-> FALSE, themeId |-> "", themeName |-> "", nodes |-> <<>>, edges |-> NoList,
     links |-> NoList]

\* a master CSV: whether the file exists and the cells of its id column, row by row
MasterFile(exists, rows) == [exists |-> exists, rows |-> rows]

\* one message of the validator: its tag and what it says
Err(tag, msg) == [tag |-> tag, msg |-> msg]

\* the message e when c holds, no message otherwise
ErrIf(c, e) == IF c THEN <<e>> ELSE <<>>

\* validate_theme_json.py ALLOWED_NODE_TYPES, lines 29-35
ALLOWED_NODE_TYPES == {"THEME", "ASSET", "BUSINESS_FIELD", "CHARACTER", "MACRO"}

\* validate_theme_json.py TYPE_ALIASES, lines 38-42
TYPE_ALIASES ==
    [BUSINESSFIELD |-> "BUSINESS_FIELD", FIELD |-> "BUSINESS_FIELD"]

\* str.upper() and the removal of blanks and dashes on the type strings of the model
UpperType(x) ==
    IF x = "asset" THEN "ASSET"
    ELSE IF x = "Business Field" THEN "BUSINESSFIELD"
    ELSE IF x = "business-field" THEN "BUSINESS_FIELD"
    ELSE x

\* validate_theme_json.py load_csv_id_set, lines 55-73: no id of an absent file, else
\* the trimmed non-empty id cells
load_csv_id_set(file) ==
    IF ~file.exists THEN {}
    ELSE {Strip(file.rows[i]) : i \in 1..Len(file.rows)} \ {""}

\* validate_theme_json.py norm_type, lines 76-82
norm_type(t) ==
    IF t = "" THEN ""
    ELSE LET x == UpperType(Strip(t))
         IN IF x \in DOMAIN TYPE_ALIASES THEN TYPE_ALIASES[x] ELSE x

\* validate_theme_json.py safe_list, lines 85-86
safe_list(v) == IF v.isList THEN v.items ELSE <<>>

\* node_id_set as it is after the loop of lines 127-175 has passed the first k entries
NodeIdSet(nodes, k) ==
    {Strip(nodes[i].id) : i \in {j \in 1..k : nodes[j].isDict /\ Strip(nodes[j].id) # ""}}

\* the master check of one type, lines 161-175: skipped when the id set is empty
MasterErr(ntype, nid, type, ids) ==
    ErrIf(ntype = type /\ ids # {} /\ nid \notin ids, Err("MASTER", type))

\* lines 153-158: a THEME-typed node whose id differs from a non-empty themeId
ThemeNodeErr(theme_id, nid, ntype) ==
    ErrIf(theme_id # "" /\ nid # theme_id /\ ntype = "THEME", Err("THEME", "theme node id mismatch"))

\* the messages of one object node with a non-empty id, lines 140-175
NodeChecks(nodes, i, theme_id, m) ==
    LET nid == Strip(nodes[i].id)
        ntype == norm_type(Strip(nodes[i].type))
    IN ErrIf(nid \in NodeIdSet(nodes, i - 1), Err("NODE", "duplicate node id"))
       \o ErrIf(ntype = "", Err("NODE", "missing type"))
       \o ErrIf(ntype # "" /\ ntype \notin ALLOWED_NODE_TYPES, Err("NODE", "invalid type"))
       \o ThemeNodeErr(theme_id, nid, ntype)
       \o MasterErr(ntype, nid, "ASSET", m.asset)
       \o MasterErr(ntype, nid, "BUSINESS_FIELD", m.bf)
       \o MasterErr(ntype, nid, "CHARACTER", m.char)
       \o MasterErr(ntype, nid, "MACRO", m.macro)

\* the messages of nodes[i], lines 127-175
NodeErrors(nodes, i, theme_id, m) ==
    IF ~nodes[i].isDict THEN <<Err("NODE", "not an object")>>
    ELSE IF Strip(nodes[i].id) = "" THEN <<Err("NODE", "missing id")>>
    ELSE NodeChecks(nodes, i, theme_id, m)

\* the node loop of lines 127-175 from entry i on
RECURSIVE NodeLoop(_, _, _, _)
NodeLoop(nodes, i, theme_id, m) ==
    IF i > Len(nodes) THEN <<>>
    ELSE NodeErrors(nodes, i, theme_id, m) \o NodeLoop(nodes, i + 1, theme_id, m)

\* theme_node_found after the node loop, lines 125 and 153-158
theme_node_found(nodes, theme_id) ==
    \E i \in 1..Len(nodes) :
       /\ nodes[i].isDict /\ Strip(nodes[i].id) # ""
       /\ norm_type(Strip(nodes[i].type)) = "THEME" \/ Strip(nodes[i].id) = theme_id

\* a faulty variant of EndpointErrors: the endpoints are not looked up among the nodes
EndpointErrorsNone(frm, to, etype, ids) ==
    ErrIf(etype = "", Err("EDGE", "missing type"))

\* lines 194-199: the messages of an edge that has both endpoints
EndpointErrors(frm, to, etype, ids) ==
    ErrIf(frm \notin ids, Err("EDGE", "from id not in nodes"))
    \o ErrIf(to \notin ids, Err("EDGE", "to id not in nodes"))
    \o ErrIf(etype = "", Err("EDGE", "missing type"))

\* the messages of edges[j], lines 181-199
EdgeErrors(e, ids) ==
    IF ~e.isDict THEN <<Err("EDGE", "not an object")>>
    ELSE IF Strip(e.from) = "" \/ Strip(e.to) = "" THEN <<Err("EDGE", "missing from/to")>>
    ELSE EndpointErrors(Strip(e.from), Strip(e.to), Strip(e.type), ids)

\* the edge loop of lines 181-199 from entry j on
RECURSIVE EdgeLoop(_, _, _)
EdgeLoop(edges, j, ids) ==
    IF j > Len(edges) THEN <<>>
    ELSE EdgeErrors(edges[j], ids) \o EdgeLoop(edges, j + 1, ids)

\* line 115: the validator reads the member "edges" only
EdgesRead(data) == safe_list(data.edges)

\* validate_theme_json.py validate_one_theme_json, lines 89-202: the messages about the
\* document data, given the id sets m of the four masters
ThemeErrors(data, m) ==
    ErrIf(Strip(data.themeId) = "", Err("SCHEMA", "missing themeId"))
    \o ErrIf(Strip(data.themeName) = "", Err("SCHEMA", "missing themeName"))
    \o ErrIf(data.nodes = <<>>, Err("SCHEMA", "nodes is empty or missing"))
    \o NodeLoop(data.nodes, 1, Strip(data.themeId), m)
    \o ErrIf(Strip(data.themeId) # "" /\ ~theme_node_found(data.nodes, Strip(data.themeId)),
             Err("THEME", "theme node not found"))
    \o EdgeLoop(EdgesRead(data), 1, NodeIdSet(data.nodes, Len(data.nodes)))

\* (ok, errors) of validate_one_theme_json, lines 201-202
validate_one_theme_json(data, m) ==
    IF ~data.readable THEN [ok |-> FALSE, errors |-> <<Err("JSON", "cannot read/parse")>>]
    ELSE [ok |-> ThemeErrors(data, m) = <<>>, errors |-> ThemeErrors(data, m)]

\* the name of the i-th file of the sorted glob T_*.json, without its extension
FileStems == <<"T_001", "T_002", "T_003", "T_004">>

\* build_theme_index.py lines 16-29: the index entry of the i-th file
IndexItem(data, i) ==
    [themeId |-> IF data.themeId # "" THEN data.themeId ELSE FileStems[i],
     themeName |-> IF data.themeName # "" THEN data.themeName
                   ELSE IF data.themeId # "" THEN data.themeId ELSE FileStems[i],
     nodeCount |-> Len(data.nodes),
     edgeCount |-> Len(safe_list(data.edges))]

\* build_freeze.py _normalize_theme_obj, lines 114-133: the member "links" of the
\* normalized document is "links" when it is a list, else "edges" when that is one
NormalizedLinks(data) ==
    IF data.links.isList THEN data.links.items
    ELSE IF data.edges.isList THEN data.edges.items
    ELSE <<>>

(***************************************************************************)
(* The theme readers as a state machine: one run of a script over the       *)
(* theme directory                                                          *)
(***************************************************************************)
\* the most theme files of a directory
MaxFiles == 2

\* the sequences over S of length at most n
SeqsUpTo(S, n) == UNION {[1..k -> S] : k \in 0..n}

NodePalette ==
    {NotAnObject, VNode("T_001", "THEME"), NamedNode("T_002", "THEME", "TN"), VNode("A_001", "ASSET"),
     VNode("A_002", "asset"), VNode("B_001", "Business Field"), VNode("C_001", "CHARACTER"),
     VNode("M_001", "MACRO"), VNode("A_001", "COMPANY"), VNode(" ", "ASSET"),
     VNode("A_001", "")}

EdgePalette ==
    {NotAnEdge, VEdge("A_001", "T_001", "REL"), VEdge("A_001", "T_001", ""),
     VEdge(" ", "T_001", "REL")}

\* where the edge list q of a document is stored: under "edges", under "links", or,
\* for the empty list, under neither
EdgeMembers(q) ==
    {<<ListOf(q), NoList>>, <<NoList, ListOf(q)>>} \cup (IF q = <<>> THEN {<<NoList, NoList>>} ELSE {})

IdAndName == {<<"T_001", "N">>, <<"", "N">>, <<"T_001", "">>}

ThemeDocs ==
    {ThemeDoc(idn[1], idn[2], nodes, mem[1], mem[2]) :
        idn \in IdAndName, nodes \in SeqsUpTo(NodePalette, MaxNodes),
        mem \in UNION {EdgeMembers(q) : q \in SeqsUpTo(EdgePalette, MaxEdges)}}
    \cup {Unreadable}

\* a theme with valid cross-references, and one with an edge to a node it does not have
GoodDoc ==
    ThemeDoc("T_001", "N", <<VNode("T_001", "THEME"), VNode("A_001", "ASSET")>>,
             ListOf(<<VEdge("A_001", "T_001", "REL")>>), NoList)
DanglingDoc ==
    ThemeDoc("T_001", "N", <<VNode("T_001", "THEME")>>,
             ListOf(<<VEdge("A_001", "T_001", "REL")>>), NoList)

\* the theme directories: the files matching T_*.json in sorted order
ThemeDirs ==
    {<<>>} \cup {<<d>> : d \in ThemeDocs}
    \cup (IF MaxFiles >= 2
          THEN {<<d>> \o rest : d \in ThemeDocs,
                                rest \in SeqsUpTo({GoodDoc, DanglingDoc}, MaxFiles - 1) \ {<<>>}}
          ELSE {})

NoMaster == MasterFile(FALSE, <<>>)
\* the states of data/master: character.csv is there exactly when business_field.csv is
MasterDirs ==
    {[asset |-> a, bf |-> b,
      char |-> IF b.exists THEN MasterFile(TRUE, <<"C_001">>) ELSE NoMaster,
      macro |-> c] :
        a \in {NoMaster, MasterFile(TRUE, <<" ">>), MasterFile(TRUE, <<"A_001", " ">>)},
        b \in {NoMaster, MasterFile(TRUE, <<"B_001">>)},
        c \in {NoMaster, MasterFile(TRUE, <<"M_001">>)}}
NoMasters == [asset |-> NoMaster, bf |-> NoMaster, char |-> NoMaster, macro |-> NoMaster]

\* a run: the script, --strict-missing-master, data/master and data/theme
\* the names of the files of a directory of n files, as what follows "T_" before
\* ".json": a sequence of characters, 0..9 for the digits and 10 for a letter
DefaultNames(n) == [i \in 1..n |-> <<0, 0, i>>]

\* the names a directory of n files can have, in the order of sorted(glob("T_*.json")):
\* T_001.json, T_0010.json, T_002.json, T_x.json
NamePalette == <<(<<0, 0, 1>>), (<<0, 0, 1, 0>>), (<<0, 0, 2>>), (<<10>>)>>
NameChoices(n) ==
    {[i \in 1..n |-> NamePalette[pos[i]]] :
        pos \in {f \in [1..n -> 1..Len(NamePalette)] : \A i \in 1..n, j \in 1..n : i < j => f[i] < f[j]}}

ReaderRun(script, strict, masters, dir) ==
    [script |-> script, strict |-> strict, masters |-> masters, dir |-> dir,
     names |-> DefaultNames(Len(dir))]

\* what a run has produced: the exit code (-1 while running), the validator's
\* (ok, errors) per file, the index written, the "links" of each normalized theme
ReaderOut(pc, exit, reports, items, links) ==
    [pc |-> pc, exit |-> exit, reports |-> reports, items |-> items, links |-> links]

InitValid ==
    /\ \/ \E strict \in BOOLEAN, masters \in MasterDirs, dir \in ThemeDirs :
             vIn = ReaderRun("validate_theme_json", strict, masters, dir)
       \/ \E script \in {"build_theme_index", "build_freeze"}, dir \in ThemeDirs :
             vIn = ReaderRun(script, FALSE, NoMasters, dir)
       \/ \E dir \in ThemeDirs : \E names \in NameChoices(Len(dir)) :
             vIn = [ReaderRun("rebuild_theme_index", FALSE, NoMasters, dir) EXCEPT !.names = names]
    /\ vOut = ReaderOut("start", -1, <<>>, <<>>, <<>>)
    /\ IdleInject /\ IdleMerge /\ IdleFetch /\ IdleFreeze /\ IdleWrite /\ IdleCalc /\ IdleUpdate

\* validate_theme_json.py main, lines 223-226: the id sets of the four masters
MasterIds(masters) ==
    [asset |-> load_csv_id_set(masters.asset), bf |-> load_csv_id_set(masters.bf),
     char |-> load_csv_id_set(masters.char), macro |-> load_csv_id_set(masters.macro)]

\* validate_theme_json.py main, lines 230-233: the master files that do not exist
MissingMasters(masters) == {k \in {"asset", "bf", "char", "macro"} : ~masters[k].exists}

\* validate_theme_json.py main, lines 248-264: the results of the files, in order
Reports(dir, ids) == [i \in 1..Len(dir) |-> validate_one_theme_json(dir[i], ids)]

\* validate_theme_json.py main, lines 205-271: the whole run
ValidateMain ==
    /\ vIn.script = "validate_theme_json" /\ vOut.pc = "start"
    /\ IF vIn.strict /\ MissingMasters(vIn.masters) # {}
       THEN vOut' = ReaderOut("done", 1, <<>>, <<>>, <<>>)
       ELSE IF vIn.dir = <<>>
       THEN vOut' = ReaderOut("done", 1, <<>>, <<>>, <<>>)
       ELSE LET reports == Reports(vIn.dir, MasterIds(vIn.masters))
            IN vOut' = ReaderOut("done",
                                 IF \E i \in 1..Len(reports) : ~reports[i].ok THEN 1 ELSE 0,
                                 reports, <<>>, <<>>)
    /\ UNCHANGED vIn
    /\ UNCHANGED <<injVars, mergeVars, fetchVars, freezeVars, writeVars, calcVars, updVars>>

\* build_theme_index.py lines 11-32: the entries of the files that could be read,
\* from file i on
RECURSIVE IndexItems(_, _)
IndexItems(dir, i) ==
    IF i > Len(dir) THEN <<>>
    ELSE (IF dir[i].readable THEN <<IndexItem(dir[i], i)>> ELSE <<>>) \o IndexItems(dir, i + 1)

\* build_theme_index.py, the whole script: index.json is written with the entries
BuildThemeIndex ==
    /\ vIn.script = "build_theme_index" /\ vOut.pc = "start"
    /\ vOut' = ReaderOut("done", 0, <<>>, IndexItems(vIn.dir, 1), <<>>)
    /\ UNCHANGED vIn
    /\ UNCHANGED <<injVars, mergeVars, fetchVars, freezeVars, writeVars, calcVars, updVars>>

\* build_freeze.py read_json (lines 32-49) and inject_metrics_into_theme, lines 370-374:
\* each theme is read, a file that cannot be parsed as {}, and normalized
NormalizeThemes ==
    /\ vIn.script = "build_freeze" /\ vOut.pc = "start"
    /\ vOut' = ReaderOut("done", 0, <<>>, <<>>,
                         [i \in 1..Len(vIn.dir) |-> NormalizedLinks(vIn.dir[i])])
    /\ UNCHANGED vIn
    /\ UNCHANGED <<injVars, mergeVars, fetchVars, freezeVars, writeVars, calcVars, updVars>>

\* the text "T_" + suffix, for the suffixes that THEME_FILE_RE matches in the model
StemText(suffix) ==
    IF suffix = <<0, 0, 1>> THEN "T_001"
    ELSE IF suffix = <<0, 0, 2>> THEN "T_002"
    ELSE IF suffix = <<0, 0, 3>> THEN "T_003"
    ELSE "T_004"

\* rebuild_theme_index.py THEME_FILE_RE (line 27) and norm_theme_id_from_filename,
\* lines 53-57: exactly three digits after "T_"
MatchesThemeFile(suffix) == Len(suffix) = 3 /\ \A i \in 1..3 : suffix[i] \in 0..9

\* rebuild_theme_index.py pick_theme_name, lines 41-51: the name of the first
\* THEME-typed object node, from node k on, that has a non-blank one
RECURSIVE ThemeNodeName(_, _, _)
ThemeNodeName(nodes, k, fallback) ==
    IF k > Len(nodes) THEN fallback
    ELSE IF nodes[k].isDict /\ UpperType(nodes[k].type) = "THEME" /\ Strip(nodes[k].name) # ""
         THEN Strip(nodes[k].name)
         ELSE ThemeNodeName(nodes, k + 1, fallback)

\* rebuild_theme_index.py safe_read_json (29-33) and pick_theme_name (35-51); a file
\* that cannot be parsed is read as {}
pick_theme_name(obj, fallback) ==
    IF obj.readable /\ Strip(obj.themeName) # "" THEN Strip(obj.themeName)
    ELSE ThemeNodeName(obj.nodes, 1, fallback)

\* rebuild_theme_index.py main, lines 65-74 and 77-82: the entry of one file, with its sort key
RebuildEntry(obj, suffix) ==
    [themeId |-> StemText(suffix), themeName |-> pick_theme_name(obj, StemText(suffix)),
     key |-> DigitsToInt(suffix)]

\* sorted(items, key=key), line 84: a stable insertion of entry e by its key
RECURSIVE InsertByKey(_, _)
InsertByKey(sorted, e) ==
    IF sorted = <<>> THEN <<e>>
    ELSE IF e.key < sorted[1].key THEN <<e>> \o sorted
    ELSE <<sorted[1]>> \o InsertByKey(Tail(sorted), e)

\* rebuild_theme_index.py main, lines 63-84: the sorted entries of the first n files
RECURSIVE RebuildItems(_, _, _)
RebuildItems(dir, names, n) ==
    IF n = 0 THEN <<>>
    ELSE IF ~MatchesThemeFile(names[n]) THEN RebuildItems(dir, names, n - 1)
    ELSE InsertByKey(RebuildItems(dir, names, n - 1), RebuildEntry(dir[n], names[n]))

\* rebuild_theme_index.py main, lines 86-89: index.json as written
RebuildThemeIndex ==
    /\ vIn.script = "rebuild_theme_index" /\ vOut.pc = "start"
    /\ vOut' = ReaderOut("done", 0, <<>>,
                         [k \in 1..Len(RebuildItems(vIn.dir, vIn.names, Len(vIn.dir))) |->
                            [themeId |-> RebuildItems(vIn.dir, vIn.names, Len(vIn.dir))[k].themeId,
                             themeName |-> RebuildItems(vIn.dir, vIn.names, Len(vIn.dir))[k].themeName]],
                         <<>>)
    /\ UNCHANGED vIn
    /\ UNCHANGED <<injVars, mergeVars, fetchVars, freezeVars, writeVars, calcVars, updVars>>

NextValid == ValidateMain \/ BuildThemeIndex \/ NormalizeThemes \/ RebuildThemeIndex

SpecValid == InitValid /\ [][NextValid]_vars

(***************************************************************************)
(* Claims about the theme readers                                           *)
(***************************************************************************)
\* a finished run of the validator that scanned the theme files
Validated ==
    vIn.script = "validate_theme_json" /\ vOut.pc = "done" /\ vOut.reports # <<>>

\* the ids of the nodes of a document, as written in the file
WrittenNodeIds(data) == {data.nodes[k].id : k \in {n \in 1..Len(data.nodes) : data.nodes[n].isDict}}

\* the edges of the member "edges" that have an endpoint that is no node's id
DanglingEdges(data) ==
    {j \in 1..Len(safe_list(data.edges)) :
        /\ data.edges.items[j].isDict
        /\ \/ data.edges.items[j].from \notin WrittenNodeIds(data)
           \/ data.edges.items[j].to \notin WrittenNodeIds(data)}

\* report r carries a message with the given tag and one of the given texts
Reported(r, tag, msgs) ==
    \E k \in 1..Len(r.errors) : r.errors[k].tag = tag /\ r.errors[k].msg \in msgs

AllEdges(data) == safe_list(data.edges) \o safe_list(data.links)

\* the master file that lists the ids of the nodes of a type
MasterOf(masters, type) ==
    IF type = "ASSET" THEN masters.asset
    ELSE IF type = "BUSINESS_FIELD" THEN masters.bf
    ELSE IF type = "CHARACTER" THEN masters.char
    ELSE masters.macro

MasterTypes == {"ASSET", "BUSINESS_FIELD", "CHARACTER", "MACRO"}

\* a theme file with valid cross-references and a THEME-typed node, in the words of
\* C18: themeId and themeName present, unique node ids of allowed types, every edge
\* typed and with both endpoints among the node ids, ids present in the masters
ValidTheme(data, masters) ==
    /\ data.readable /\ data.themeId # "" /\ data.themeName # ""
    /\ \A k \in 1..Len(data.nodes) :
          /\ data.nodes[k].isDict /\ Strip(data.nodes[k].id) # ""
          /\ data.nodes[k].type \in ALLOWED_NODE_TYPES
          /\ \A k2 \in 1..Len(data.nodes) : data.nodes[k2].id = data.nodes[k].id => k2 = k
          /\ data.nodes[k].type \in MasterTypes
                => /\ MasterOf(masters, data.nodes[k].type).exists
                   /\ data.nodes[k].id \in load_csv_id_set(MasterOf(masters, data.nodes[k].type))
    /\ \A j \in 1..Len(AllEdges(data)) :
          /\ AllEdges(data)[j].isDict /\ AllEdges(data)[j].type # ""
          /\ AllEdges(data)[j].from \in WrittenNodeIds(data)
          /\ AllEdges(data)[j].to \in WrittenNodeIds(data)
    /\ \E k \in 1..Len(data.nodes) : data.nodes[k].type = "THEME"

\* C18: a theme file whose cross-references are all valid and that contains a
\* THEME-typed node passes validation, and a run that scanned only such files exits
\* with code 0.
C18_ValidThemePasses ==
    Validated =>
       /\ \A i \in 1..Len(vIn.dir) :
             ValidTheme(vIn.dir[i], vIn.masters) => vOut.reports[i].ok
       /\ (\A i \in 1..Len(vIn.dir) : ValidTheme(vIn.dir[i], vIn.masters)) => vOut.exit = 0

\* a readable document that keeps its edge list under "links" and has no "edges"
StoredUnderLinks(data) == data.readable /\ ~data.edges.isList /\ data.links.isList

\* the same document with the edge list moved to the member "edges"
UnderEdges(data) ==
    IF StoredUnderLinks(data) THEN [data EXCEPT !.edges = data.links, !.links = NoList] ELSE data

\* the directory with every edge list under "edges"
DirUnderEdges == [i \in 1..Len(vIn.dir) |-> UnderEdges(vIn.dir[i])]

\* C19: the theme readers accept both spellings of the edge list: for a theme whose
\* edges are stored under `links`, the validator's result, the index builder's entry
\* and the normalized edge list of the freeze builder are what they are for the same
\* theme with the edges stored under `edges`.
C19_LinksReadAsEdges ==
    vOut.pc = "done" =>
       /\ Validated => vOut.reports = Reports(DirUnderEdges, MasterIds(vIn.masters))
       /\ vIn.script = "build_theme_index" => vOut.items = IndexItems(DirUnderEdges, 1)
       /\ vIn.script = "build_freeze"
             => vOut.links = [i \in 1..Len(vIn.dir) |-> NormalizedLinks(DirUnderEdges[i])]

\* the object nodes of a document that are of a master's type and whose id is not in
\* the id set of that master, the master file being present
NotInPresentMaster(data, masters) ==
    {k \in 1..Len(data.nodes) :
        /\ data.nodes[k].isDict /\ data.nodes[k].type \in MasterTypes
        /\ MasterOf(masters, data.nodes[k].type).exists
        /\ data.nodes[k].id \notin load_csv_id_set(MasterOf(masters, data.nodes[k].type))}

\* C20: when a master CSV is present, every ASSET/BUSINESS_FIELD/CHARACTER/MACRO
\* node whose id is not in that master's id set makes the theme fail validation; when
\* the master is absent the check of its type is skipped, without a failure, unless
\* strict mode is requested, and then the run fails.
C20_MasterCrossCheck ==
    (vIn.script = "validate_theme_json" /\ vOut.pc = "done") =>
       /\ Validated =>
             \A i \in 1..Len(vIn.dir) :
                /\ (vIn.dir[i].readable /\ NotInPresentMaster(vIn.dir[i], vIn.masters) # {})
                      => ~vOut.reports[i].ok
                /\ \A type \in MasterTypes :
                      ~MasterOf(vIn.masters, type).exists
                         => ~Reported(vOut.reports[i], "MASTER", {type})
       /\ (vIn.strict /\ \E type \in MasterTypes : ~MasterOf(vIn.masters, type).exists)
             => vOut.exit = 1

(***************************************************************************)
(* Claims about the index builders                                          *)
(***************************************************************************)
\* the names, as theme ids, of the files from the i-th on that build_theme_index.py
\* could read
RECURSIVE ReadableStems(_, _)
ReadableStems(dir, i) ==
    IF i > Len(dir) THEN <<>>
    ELSE (IF dir[i].readable THEN <<FileStems[i]>> ELSE <<>>) \o ReadableStems(dir, i + 1)

\* the files of the run whose name has the form T_ddd.json
MatchingFiles == {i \in 1..Len(vIn.dir) : MatchesThemeFile(vIn.names[i])}

\* C21: every entry of the generated index takes its themeId from the name of the
\* theme file it was built from, whatever themeId the file holds inside; this is
\* stated of both scripts that write index.json, rebuild_theme_index.py and
\* build_theme_index.py.
C21_IndexIdFromFileName ==
    vOut.pc = "done" =>
       /\ vIn.script = "rebuild_theme_index"
             => /\ Len(vOut.items) = Cardinality(MatchingFiles)
                /\ {vOut.items[k].themeId : k \in 1..Len(vOut.items)}
                      = {StemText(vIn.names[i]) : i \in MatchingFiles}
       /\ vIn.script = "build_theme_index"
             => [k \in 1..Len(vOut.items) |-> vOut.items[k].themeId] = ReadableStems(vIn.dir, 1)

(***************************************************************************)
(* Further claims about the mergers                                         *)
(***************************************************************************)
\* the fragments without the files that cannot be read
ReadableFrags == [d \in DOMAIN frags |-> IF frags[d].readable THEN frags[d] ELSE NoFile]

\* C22: a fragment file that cannot be read or parsed is skipped, and the merge
\* completes with the rows of every other fragment: each script's master is what it
\* would be without the unreadable files, and the run does not end in an exception.
C22_UnreadableFragmentSkipped ==
    /\ masterA.runs > 0 =>
          /\ ~masterA.raised
          /\ masterA.merged_rows
                = build_one_master(list_g_dirs(discovered), ReadableFrags, AssetIdCol).merged_rows
    /\ masterB.ran =>
          masterB.rows
             = merge_master(AssetIdCandidates, list_fragment_dirs(discovered), ReadableFrags).rows

\* the non-empty ids, trimmed, of all the fragments
AllIds == UNION {IdsIn(d) : d \in DOMAIN frags}

\* C23: build_one_master never emits a row whose id column is empty after trimming,
\* and emits exactly one row for each distinct non-empty id of the fragments it
\* read; the report's unique_ids equals rows_kept_unique.
C23_OneRowPerId ==
    masterA.ran =>
       /\ \A i \in 1..Len(masterA.merged_rows) :
             Strip(RowGet(masterA.merged_rows[i], AssetIdCol)) # ""
       /\ {RowGet(masterA.merged_rows[i], AssetIdCol) : i \in 1..Len(masterA.merged_rows)} = AllIds
       /\ Len(masterA.merged_rows) = Cardinality(AllIds)
       /\ masterA.report.unique_ids = masterA.report.rows_kept_unique
       /\ masterA.report.unique_ids = Cardinality(AllIds)

\* two fragments with a row without id, a repeated id and three distinct ids in all
C23_Witness ==
    /\ masterA.ran
    /\ \E d \in DOMAIN frags : frags[d] = CsvFile(AssetHeader, <<Row("", "x"), Row("A_2", "y")>>)
    /\ \E d \in DOMAIN frags :
          frags[d] = CsvFile(AssetHeader, <<Row("A_10", "x"), Row("A_1", "z"), Row("A_10", "y")>>)
    /\ Len(masterA.merged_rows) = 3
    /\ masterA.report.rows_skipped_no_id = 1
    /\ masterA.report.total_rows_scanned = 5

\* a fragment file that contributes to the master: it has a header and a row
Contributing(f) == f.exists /\ f.readable /\ f.header # <<>> /\ f.rows # <<>>

\* the columns cols, from the j-th on, appended to seen unless already there
RECURSIVE AppendNew(_, _, _)
AppendNew(seen, cols, j) ==
    IF j > Len(cols) THEN seen
    ELSE AppendNew(IF cols[j] \in Range(seen) THEN seen ELSE Append(seen, cols[j]), cols, j + 1)

\* the union, without duplicates and in first-seen order, of seen and the header
\* columns of the contributing files of the directories g_dirs, from the i-th on
RECURSIVE FirstSeenUnion(_, _, _)
FirstSeenUnion(seen, g_dirs, i) ==
    IF i > Len(g_dirs) THEN seen
    ELSE FirstSeenUnion(IF Contributing(frags[g_dirs[i]])
                        THEN AppendNew(seen, frags[g_dirs[i]].header, 1) ELSE seen,
                        g_dirs, i + 1)

\* every column of the fragment a row won from is in the master file, with the
\* row's value
WinnerColumnsKept ==
    \A id \in DOMAIN masterA.winners :
       \E i \in 1..Len(masterA.disk.rows) :
          /\ masterA.disk.rows[i][AssetIdCol] = id
          /\ \A h \in Range(frags[masterA.winner_src[id]].header) :
                /\ h \in Range(masterA.disk.headers)
                /\ masterA.disk.rows[i][h] = masterA.winners[id][h]
                /\ \E k \in 1..Len(frags[masterA.winner_src[id]].rows) :
                      frags[masterA.winner_src[id]].rows[k] = masterA.winners[id]

\* C24 as stated: the output header of build_one_master is the union, without
\* duplicates and in first-seen order over the priority-ordered files, of the header
\* columns of the contributing fragments, and the columns and values of the fragment
\* a row won from are preserved in the master output.
C24_HeaderIsFirstSeenUnion ==
    masterA.ran =>
       /\ masterA.disk.headers = FirstSeenUnion(<<>>, list_g_dirs(discovered), 1)
       /\ WinnerColumnsKept

\* C24 as the code has it: the output header is the id column followed by the
\* other columns of the contributing fragments, without duplicates and in first-seen
\* order over the priority-ordered files; the columns and values of the fragment a
\* row won from are preserved in the master output.
C24_HeaderIsIdThenUnion ==
    masterA.ran =>
       /\ masterA.disk.headers = FirstSeenUnion(<<AssetIdCol>>, list_g_dirs(discovered), 1)
       /\ masterA.headers = masterA.disk.headers
       /\ WinnerColumnsKept

\* the row of A_1 won from the only fragment with a ticker column; another fragment
\* brought the column name
C24_Witness ==
    /\ masterA.ran
    /\ masterA.disk.headers = <<"asset_id", "ticker", "name">>
    /\ \E i \in 1..Len(masterA.disk.rows) :
          masterA.disk.rows[i] = [asset_id |-> "A_1", ticker |-> "t", name |-> ""]

SamePriority(d, e) ==
    d # e /\ d.san = e.san /\ DigitsToInt(d.digits) = DigitsToInt(e.digits)

\* d is listed before e in the latest discovery
DiscoveredBefore(d, e) ==
    \E i \in 1..Len(discovered) : \E j \in 1..Len(discovered) :
       i < j /\ discovered[i] = d /\ discovered[j] = e

\* C29: when two fragment directories of the same priority both hold a row for an
\* id, and no directory outranks them, the master row of that id is the row of the
\* directory that was discovered later.
C29_LaterDiscoveredWinsTie ==
    masterA.ran =>
       \A d \in DOMAIN frags : \A e \in DOMAIN frags : \A id \in IdsIn(d) \cap IdsIn(e) :
          (SamePriority(d, e) /\ DiscoveredBefore(d, e)
           /\ \A k \in DOMAIN frags : ~Outranks(k, d))
             => masterA.winner_src[id] = e

(***************************************************************************)
(* Further claims about the injector                                        *)
(***************************************************************************)
ValuationFields == {"close", "marketCap", "pe_ttm"}

\* C27: no injection run replaces a stored non-zero valuation field (close,
\* marketCap, pe_ttm) of an ASSET node by a zero taken from a cache record.
C27_NoZeroOverNonZero ==
    [][\A i \in DOMAIN themeFile :
          (/\ i \in DOMAIN themeFile'
           /\ themeFile[i].type = "ASSET"
           /\ themeFile[i].isDict) =>
             \A k \in ValuationFields \cap DOMAIN themeFile[i].metrics :
                NotNullOrZero(themeFile[i].metrics[k]) =>
                   Get(themeFile'[i].metrics, k) # Num(0)]_vars

\* the country of a node as the loop reads it
CountryOf(node) == Strip(Upper(node.country))

\* the value of key k in the cache record a node is entitled to, or Null
KrValOf(node, c, k) ==
    IF CountryOf(node) = "KR" THEN Get(Lookup(c.krVal, zfill6(node.ticker)), k) ELSE Null
KrRetOf(node, c, k) ==
    IF CountryOf(node) = "KR" THEN Get(Lookup(c.krRet, zfill6(node.ticker)), k) ELSE Null
UsValOf(node, c, k) ==
    IF CountryOf(node) = "US" THEN Get(Lookup(c.fmpVal, IdText(node.id)), k) ELSE Null
RetAllOf(node, c, k) == Get(Lookup(c.retAll, IdText(node.id)), k)

\* C28: on an ASSET node a valuation field changes only to the value of the
\* by-ticker KR cache when the country is KR or of the by-id US cache when it
\* is US, a node of any other country keeps its valuation fields, a return
\* field changes only to the value of the KR returns cache (country KR) or of
\* the all-country cache, and a value the all-country cache holds for the id
\* of a node is the one stored after the run, whatever the country.
C28_CachesByCountry ==
    [][\A i \in DOMAIN themeFile :
          (i \in DOMAIN themeFile' /\ themeFile[i].type = "ASSET") =>
             LET old == themeFile[i]
                 new == themeFile'[i]
             IN /\ \A k \in ValuationFields :
                      Get(new.metrics, k) # Get(old.metrics, k) =>
                         /\ CountryOf(old) \in {"KR", "US"}
                         /\ Get(new.metrics, k) \in {KrValOf(old, caches, k),
                                                     UsValOf(old, caches, k)}
                /\ \A k \in {"return_3d", "returnsSource"} :
                      Get(new.metrics, k) # Get(old.metrics, k) =>
                         Get(new.metrics, k) \in {KrRetOf(old, caches, k),
                                                  RetAllOf(old, caches, k)}
                /\ (injSame' /\ ~injLast'.raised) =>
                      \A k \in {"return_3d"} :
                         RetAllOf(old, caches, k) # Null =>
                            Get(new.metrics, k) = RetAllOf(old, caches, k)]_vars

\* a run has written the all-country return of a node of a third country whose
\* id is a key of the US valuation cache, and the node kept its valuation fields
C28_Witness ==
    /\ injLast.ran /\ injLast.wrote
    /\ \E i \in DOMAIN themeFile :
          /\ themeFile[i].type = "ASSET"
          /\ CountryOf(themeFile[i]) = "JP"
          /\ IdText(themeFile[i].id) \in DOMAIN caches.fmpVal
          /\ "marketCap" \in DOMAIN caches.fmpVal[IdText(themeFile[i].id)]
          /\ _is_meaningful_valuation(caches.fmpVal[IdText(themeFile[i].id)])
          /\ Get(themeFile[i].metrics, "close") = Num(1)
          /\ "marketCap" \notin DOMAIN themeFile[i].metrics
          /\ RetAllOf(themeFile[i], caches, "return_3d") = Num(0)
          /\ Get(themeFile[i].metrics, "return_3d") = Num(0)

(***************************************************************************)
(* update_theme_metrics.py: update_one_theme.  A run reads the theme file,  *)
(* asks the price and PER sources about every mapped ASSET node, writes the *)
(* values it could compute and the status records, and saves the file.      *)
(***************************************************************************)
\* a theme file is updated at most MaxUpdates times in a behaviour
MaxUpdates == 2

AssetSource(country, krx_ticker, us_symbol) ==
    [country |-> country, krx_ticker |-> krx_ticker, us_symbol |-> us_symbol]

ASSET_SOURCES ==
    [id \in {"A_079", "A_080", "A_082", "A_083", "A_084", "A_085"} |->
        AssetSource("KR", "ticker", "")]
    @@ [id \in {"A_086", "A_087"} |-> AssetSource("US", "", "symbol")]

\* a node of the theme file: metrics is a dict (isDict) or something else
UNode(type, id, isDict, metrics, metricsMeta) ==
    [type |-> type, id |-> id, isDict |-> isDict, metrics |-> metrics,
     metricsMeta |-> metricsMeta]

\* what a price source answers: an exception, or a frame of rows (<<>>: no rows)
Raises == [raises |-> TRUE, rows |-> <<>>, per |-> Null, perFwd12m |-> Null, eps |-> Null]
Frame(rows) == [Raises EXCEPT !.raises = FALSE, !.rows = rows]
\* what fetch_per_from_fnguide answers: (trailing_per, fwd12m_per)
PerPair(tp, fp) == [Raises EXCEPT !.raises = FALSE, !.per = tp, !.perFwd12m = fp]
\* what fetch_forward_eps_from_fmp answers
Eps(e) == [Raises EXCEPT !.raises = FALSE, !.eps = e]

\* if asset_meta["lastError"]: += " | msg" else: = msg (the messages are kept as a list)
AddError(le, msg) == le \o <<msg>>

\* lines 516-536: the price frame of a US asset; None and an empty frame are both <<>>
PriceUs(f, fmp_api_key, av_api_key) ==
    LET a1 == IF ~fmp_api_key THEN [df |-> <<>>, sourcePrice |-> "", lastError |-> <<>>]
              ELSE IF f.fmp.raises
                   THEN [df |-> <<>>, sourcePrice |-> "", lastError |-> <<"FMP price failed">>]
                   ELSE [df |-> f.fmp.rows, sourcePrice |-> "FMP(stable)", lastError |-> <<>>]
    IN IF a1.df = <<>> /\ av_api_key
       THEN IF f.av.raises
            THEN [a1 EXCEPT !.df = <<>>, !.lastError = <<"AV price failed">>]
            ELSE [df |-> f.av.rows, sourcePrice |-> "AlphaVantage(backup)", lastError |-> <<>>]
       ELSE a1

\* lines 511-541: the frame, the price source and the status after the price step
PriceStep(src, f, fmp_api_key, av_api_key) ==
    IF src.country = "KR" /\ src.krx_ticker # ""
    THEN IF f.krx.raises
         THEN [df |-> <<>>, sourcePrice |-> "", lastError |-> <<"price error">>,
               status |-> "PARTIAL"]
         ELSE [df |-> f.krx.rows, sourcePrice |-> "KRX(pykrx)", lastError |-> <<>>,
               status |-> "OK"]
    ELSE IF src.country = "US" /\ src.us_symbol # ""
    THEN LET u == PriceUs(f, fmp_api_key, av_api_key)
         IN [df |-> u.df, sourcePrice |-> u.sourcePrice, lastError |-> u.lastError,
             status |-> "OK"]
    ELSE [df |-> <<>>, sourcePrice |-> "", lastError |-> <<>>, status |-> "OK"]

\* a faulty variant: every returned value is stored, None included
WriteReturnsAlsoNone(metrics, returns) ==
    [k \in DOMAIN metrics \cup DOMAIN returns |->
        IF k \in DOMAIN returns THEN returns[k] ELSE metrics[k]]

\* for k, v in returns.items(): if v is not None: metrics[k] = v
WriteReturns(metrics, returns) ==
    [k \in DOMAIN metrics \cup {x \in DOMAIN returns : returns[x] # Null} |->
        IF k \in DOMAIN returns /\ returns[k] # Null THEN returns[k] ELSE metrics[k]]

\* lines 543-556: latest price, returns, wrote_any
ReturnsStep(st, p) ==
    IF p.df # <<>>
    THEN LET returns == compute_returns_from_close(p.df)
             wrote_any == \E k \in DOMAIN returns : returns[k] # Null
         IN [st EXCEPT !.metrics = WriteReturns(st.metrics, returns),
                       !.latest_price = Num(p.df[Len(p.df)].c),
                       !.wrote_any = wrote_any,
                       !.status = IF wrote_any THEN @ ELSE "PARTIAL"]
    ELSE [st EXCEPT !.status = "PARTIAL"]

\* lines 562-578: KR, the PER values of FnGuide
PerKr(st, f) ==
    IF f.fnguide.raises
    THEN [st EXCEPT !.status = "PARTIAL",
                    !.lastError = AddError(@, "FnGuide PER failed")]
    ELSE LET m1 == IF f.fnguide.per # Null
                   THEN Put(st.metrics, "per", f.fnguide.per) ELSE st.metrics
             m2 == IF f.fnguide.perFwd12m # Null
                   THEN Put(m1, "perFwd12m", f.fnguide.perFwd12m) ELSE m1
         IN [st EXCEPT !.metrics = m2,
                       !.sourcePER = IF f.fnguide.per # Null \/ f.fnguide.perFwd12m # Null
                                     THEN "FnGuide(best-effort)" ELSE @]

\* float(round(latest_price / eps_fwd, 2)), in hundredths
FwdPer(latest_price, eps_fwd) ==
    IF eps_fwd.n < 0 THEN 0 - ((latest_price.n * 100) \div (0 - eps_fwd.n))
    ELSE (latest_price.n * 100) \div eps_fwd.n

\* lines 581-612: US, the forward PER from the latest price and the forward EPS
PerUs(st, f, fmp_api_key) ==
    IF fmp_api_key /\ st.latest_price # Null
    THEN IF f.eps.raises
         THEN [st EXCEPT !.status = "PARTIAL", !.lastError = AddError(@, "US EPS failed")]
         ELSE IF f.eps.eps # Null /\ f.eps.eps.n # 0
         THEN IF FwdPer(st.latest_price, f.eps.eps) > 0
              THEN [st EXCEPT !.metrics = Put(@, "perFwd12m",
                                              Num(FwdPer(st.latest_price, f.eps.eps))),
                              !.sourcePER = IF @ # "" THEN @ \o "+FMP(eps)" ELSE "FMP(eps)"]
              ELSE st
         ELSE [st EXCEPT !.status = "PARTIAL"]
    ELSE LET e1 == IF st.latest_price = Null
                   THEN AddError(st.lastError, "US latest price missing => no US FWD PER")
                   ELSE st.lastError
             e2 == IF ~fmp_api_key
                   THEN AddError(e1, "FMP_API_KEY missing => no US EPS") ELSE e1
         IN [st EXCEPT !.status = "PARTIAL", !.lastError = e2]

\* lines 494-617: the body of the loop for one mapped ASSET node
UpdateAsset(n, src, f, fmp_api_key, av_api_key, now) ==
    LET p == PriceStep(src, f, fmp_api_key, av_api_key)
        st0 == [metrics |-> IF n.isDict THEN n.metrics ELSE EmptyMap,
                status |-> p.status, sourcePrice |-> p.sourcePrice, sourcePER |-> "",
                lastError |-> p.lastError, latest_price |-> Null, wrote_any |-> FALSE]
        st1 == ReturnsStep(st0, p)
        st2 == IF src.country = "KR" /\ src.krx_ticker # "" THEN PerKr(st1, f) ELSE st1
        st3 == IF src.country = "US" /\ src.us_symbol # ""
               THEN PerUs(st2, f, fmp_api_key) ELSE st2
    IN [node |-> [n EXCEPT !.isDict = TRUE, !.metrics = st3.metrics,
                           !.metricsMeta =
                               ("updatedAtUTC" :> Num(now)) @@ ("status" :> Str(st3.status))
                               @@ ("sourcePrice" :> Str(st3.sourcePrice))
                               @@ ("sourcePER" :> Str(st3.sourcePER))
                               @@ ("lastError" :> st3.lastError) @@ @],
        mapped |-> TRUE, wrote_any |-> st3.wrote_any, status |-> st3.status]

\* lines 485-620: the loop over the nodes
RECURSIVE UpdateNodes(_, _, _, _, _, _)
UpdateNodes(acc, i, f, fmp_api_key, av_api_key, now) ==
    IF i > Len(acc.nodes) THEN acc
    ELSE IF acc.nodes[i].type # "ASSET" \/ acc.nodes[i].id \notin DOMAIN ASSET_SOURCES
    THEN UpdateNodes(acc, i + 1, f, fmp_api_key, av_api_key, now)
    ELSE CHOOSE out \in
           {UpdateNodes([acc EXCEPT !.nodes[i] = r.node,
                                    !.locals[i] = [mapped |-> TRUE, wrote_any |-> r.wrote_any,
                                                   status |-> r.status],
                                    !.updated_assets = IF r.wrote_any THEN @ + 1 ELSE @,
                                    !.failed_assets = IF r.status # "OK" THEN @ + 1 ELSE @],
                        i + 1, f, fmp_api_key, av_api_key, now) :
              r \in {UpdateAsset(acc.nodes[i], ASSET_SOURCES[acc.nodes[i].id], f,
                                 fmp_api_key, av_api_key, now)}} : TRUE

\* a faulty variant: the status looks at the failures only
ThemeStatusFailOnly(failed_assets, updated_assets) ==
    IF failed_assets > 0
    THEN [metricsStatus |-> "FAIL",
          metricsLastError |-> "All mapped assets failed to update (kept previous cache)."]
    ELSE [metricsStatus |-> "OK", metricsLastError |-> ""]

\* lines 622-631: the status of the theme (the message's count is failed_assets)
ThemeStatus(failed_assets, updated_assets) ==
    IF failed_assets > 0 /\ updated_assets = 0
    THEN [metricsStatus |-> "FAIL",
          metricsLastError |-> "All mapped assets failed to update (kept previous cache)."]
    ELSE IF failed_assets > 0
    THEN [metricsStatus |-> "PARTIAL", metricsLastError |-> "Some assets not updated"]
    ELSE [metricsStatus |-> "OK", metricsLastError |-> ""]

\* def update_one_theme: the theme written, and the locals at the end of the call
update_one_theme(theme, f, fmp_api_key, av_api_key, now) ==
    LET acc == UpdateNodes([nodes |-> theme.nodes,
                            locals |-> [i \in DOMAIN theme.nodes |->
                                          [mapped |-> FALSE, wrote_any |-> FALSE,
                                           status |-> ""]],
                            updated_assets |-> 0, failed_assets |-> 0],
                           1, f, fmp_api_key, av_api_key, now)
        ts == ThemeStatus(acc.failed_assets, acc.updated_assets)
    IN [theme |-> [theme EXCEPT
                     !.nodes = acc.nodes,
                     !.meta = ("metricsUpdatedAtUTC" :> Num(now))
                              @@ ("metricsStatus" :> Str(ts.metricsStatus))
                              @@ ("metricsLastError" :> Str(ts.metricsLastError)) @@ @],
        locals |-> acc.locals,
        updated_assets |-> acc.updated_assets, failed_assets |-> acc.failed_assets]

\* ---- inputs -----------------------------------------------------------------
StoredTM ==
    ("ret3d" :> Num(5)) @@ ("per" :> Num(7)) @@ ("perFwd12m" :> Num(9))
    @@ ("memo" :> Str("manual"))

OldAssetMeta == ("status" :> Str("FAIL")) @@ ("reviewedBy" :> Str("me"))
OldThemeMeta ==
    ("metricsStatus" :> Str("FAIL")) @@ ("metricsLastError" :> Str("old"))
    @@ ("owner" :> Str("me"))

KrStored == UNode("ASSET", "A_079", TRUE, StoredTM, EmptyMap)
KrNoDict == UNode("ASSET", "A_080", FALSE, EmptyMap, EmptyMap)
UsStored == UNode("ASSET", "A_087", TRUE, StoredTM, OldAssetMeta)
Unmapped == UNode("ASSET", "A_001", TRUE, StoredTM, OldAssetMeta)
ThemeOnly == UNode("THEME", "T_009", FALSE, EmptyMap, EmptyMap)

ThemeFile(meta, nodes) == [readable |-> TRUE, meta |-> meta, nodes |-> nodes]
\* load_theme_json raises on it
NoThemeFile == [readable |-> FALSE, meta |-> EmptyMap, nodes |-> <<>>]

UThemes ==
    {ThemeFile(EmptyMap, <<ThemeOnly, KrStored, UsStored>>),
     ThemeFile(OldThemeMeta, <<KrStored>>),
     ThemeFile(OldThemeMeta, <<UsStored, Unmapped>>),
     ThemeFile(EmptyMap, <<KrNoDict, KrStored>>),
     ThemeFile(OldThemeMeta, <<ThemeOnly, Unmapped>>),
     ThemeFile(EmptyMap, <<>>),
     NoThemeFile}

\* frames: one row with close 0 (no return can be computed), four rows
ZeroFrame == Series(1, 1, <<0, 0, 0>>)
FullFrame == Series(4, 2, <<128, 64, 128>>)

KrxAnswers == {Raises, Frame(ZeroFrame), Frame(FullFrame)}
FnGuideAnswers == {Raises, PerPair(Null, Null), PerPair(Num(11), Null), PerPair(Null, Num(12))}
FmpAnswers == {Raises, Frame(<<>>), Frame(FullFrame)}
AvAnswers == {Raises, Frame(ZeroFrame), Frame(FullFrame)}
EpsAnswers == {Raises, Eps(Null), Eps(Num(2)), Eps(Num(0 - 2))}

Answers(krx, fnguide, fmp, av, eps) ==
    [krx |-> krx, fnguide |-> fnguide, fmp |-> fmp, av |-> av, eps |-> eps]
NoAnswers == Answers(Raises, Raises, Raises, Raises, Raises)

NotRunU ==
    [pc |-> "ready", runs |-> 0, prev |-> NoThemeFile, f |-> NoAnswers,
     fmp_api_key |-> FALSE, av_api_key |-> FALSE, locals |-> <<>>,
     updated_assets |-> 0, failed_assets |-> 0, saved |-> FALSE]

InitUpdate ==
    /\ uTheme \in UThemes
    /\ uRun = NotRunU
    /\ IdleInject /\ IdleMerge /\ IdleFetch /\ IdleFreeze /\ IdleWrite /\ IdleCalc /\ IdleValid

\* the theme has a mapped ASSET node of the country
HasCountry(theme, country) ==
    \E i \in DOMAIN theme.nodes :
       /\ theme.nodes[i].type = "ASSET" /\ theme.nodes[i].id \in DOMAIN ASSET_SOURCES
       /\ ASSET_SOURCES[theme.nodes[i].id].country = country

\* main, lines 653-660, for one theme: update_one_theme run to its end, or its
\* exception caught when the theme file cannot be loaded.  A source that is not
\* asked (no key, no asset of its country) has no answer to choose.
UpdateOneTheme ==
    /\ uRun.pc # "idle" /\ uRun.runs < MaxUpdates
    /\ \E fmp_api_key \in (IF HasCountry(uTheme, "US") THEN BOOLEAN ELSE {FALSE}),
          av_api_key \in (IF HasCountry(uTheme, "US") THEN BOOLEAN ELSE {FALSE}),
          krx \in (IF HasCountry(uTheme, "KR") THEN KrxAnswers ELSE {Raises}),
          fnguide \in (IF HasCountry(uTheme, "KR") THEN FnGuideAnswers ELSE {Raises}) :
          \E fmp \in (IF fmp_api_key THEN FmpAnswers ELSE {Raises}),
             av \in (IF av_api_key THEN AvAnswers ELSE {Raises}),
             eps \in (IF fmp_api_key THEN EpsAnswers ELSE {Raises}) :
             \E f \in {Answers(krx, fnguide, fmp, av, eps)} :
                IF ~uTheme.readable
                THEN /\ uRun' = [uRun EXCEPT !.pc = "crashed", !.runs = @ + 1,
                                             !.prev = uTheme, !.f = f,
                                             !.fmp_api_key = fmp_api_key,
                                             !.av_api_key = av_api_key,
                                             !.locals = <<>>, !.updated_assets = 0,
                                             !.failed_assets = 0, !.saved = FALSE]
                     /\ UNCHANGED uTheme
                ELSE \E r \in {update_one_theme(uTheme, f, fmp_api_key, av_api_key,
                                                uRun.runs + 1)} :
                        /\ uTheme' = r.theme
                        /\ uRun' = [pc |-> "done", runs |-> uRun.runs + 1, prev |-> uTheme,
                                    f |-> f, fmp_api_key |-> fmp_api_key,
                                    av_api_key |-> av_api_key, locals |-> r.locals,
                                    updated_assets |-> r.updated_assets,
                                    failed_assets |-> r.failed_assets, saved |-> TRUE]
    /\ UNCHANGED <<injVars, mergeVars, fetchVars, freezeVars, writeVars, calcVars, validVars>>

NextUpdate == UpdateOneTheme

SpecUpdate == InitUpdate /\ [][NextUpdate]_vars

(***************************************************************************)
(* Claims about update_theme_metrics.py                                     *)
(***************************************************************************)
\* the nodes update_one_theme works on
IsMapped(n) == n.type = "ASSET" /\ n.id \in DOMAIN ASSET_SOURCES

\* the frames the price sources of a country answered in the run
AnsweredFrames(run, country) ==
    {a.rows : a \in {x \in (IF country = "KR" THEN {run.f.krx}
                            ELSE ({run.f.fmp} \cap (IF run.fmp_api_key THEN {run.f.fmp} ELSE {}))
                                 \cup ({run.f.av} \cap (IF run.av_api_key THEN {run.f.av} ELSE {}))) :
                       ~x.raises /\ x.rows # <<>>}}

\* the values successfully computed for key k of an asset of a country in the run
Computed(run, country, k) ==
    IF k \in TM_KEYS
    THEN {compute_returns_from_close(df)[k] : df \in AnsweredFrames(run, country)} \ {Null}
    ELSE IF country = "KR" /\ k \in {"per", "perFwd12m"} /\ ~run.f.fnguide.raises
    THEN {run.f.fnguide[k]} \ {Null}
    ELSE IF country = "US" /\ k = "perFwd12m" /\ run.fmp_api_key /\ ~run.f.eps.raises
            /\ run.f.eps.eps \notin {Null, Num(0)}
    THEN {Num(x) : x \in {y \in {FwdPer(Num(df[Len(df)].c), run.f.eps.eps) :
                                    df \in AnsweredFrames(run, country)} : y > 0}}
    ELSE {}

\* C26: after a completed update_one_theme, every metric key a mapped ASSET
\* node had before the run is still there, with its old value or with a value
\* computed in this run from an answer of a source, whatever the sources
\* answered; every node that is not an ASSET or has no entry in ASSET_SOURCES
\* is as it was.
C26_NeverDeletesMetrics ==
    uRun.pc = "done" =>
       /\ Len(uTheme.nodes) = Len(uRun.prev.nodes)
       /\ \A i \in DOMAIN uRun.prev.nodes :
             LET old == uRun.prev.nodes[i]
                 new == uTheme.nodes[i]
             IN IF IsMapped(old)
                THEN /\ new.id = old.id /\ new.type = old.type
                     /\ old.isDict =>
                          \A k \in DOMAIN old.metrics :
                             /\ k \in DOMAIN new.metrics
                             /\ \/ new.metrics[k] = old.metrics[k]
                                \/ new.metrics[k] \in
                                     Computed(uRun, ASSET_SOURCES[old.id].country, k)
                ELSE new = old

\* every source failed, and the KR node has the metrics it had
C26_Witness ==
    /\ uRun.pc = "done" /\ uRun.saved
    /\ uRun.f.krx.raises /\ uRun.f.fnguide.raises
    /\ ~uRun.fmp_api_key /\ uRun.av_api_key /\ uRun.f.av.raises
    /\ \E i \in DOMAIN uTheme.nodes, j \in DOMAIN uTheme.nodes :
          /\ uTheme.nodes[i].id = "A_079" /\ uTheme.nodes[i].metrics = StoredTM
          /\ uTheme.nodes[j].id = "A_087" /\ uTheme.nodes[j].metrics = StoredTM
          /\ uTheme.nodes[i].metricsMeta["status"] = Str("PARTIAL")

\* the mapped assets of the theme of the last run
MappedNodes == {i \in DOMAIN uRun.prev.nodes : IsMapped(uRun.prev.nodes[i])}
AssetOk(i) == Get(uTheme.nodes[i].metricsMeta, "status") = Str("OK")

\* C30: after a completed update_one_theme the theme's metricsStatus is OK
\* exactly when every mapped asset ended with status OK, FAIL exactly when some
\* mapped asset is not OK and no mapped asset had a return written, PARTIAL in
\* every other case; metricsLastError is empty exactly when the status is OK;
\* and the theme file has been saved.
C30_ThemeStatus ==
    uRun.pc = "done" =>
       LET st == Get(uTheme.meta, "metricsStatus")
           allOk == \A i \in MappedNodes : AssetOk(i)
           noneWritten == \A i \in MappedNodes : ~uRun.locals[i].wrote_any
       IN /\ uRun.saved
          /\ st \in {Str("OK"), Str("FAIL"), Str("PARTIAL")}
          /\ st = Str("OK") <=> allOk
          /\ st = Str("FAIL") <=> (~allOk /\ noneWritten)
          /\ st = Str("PARTIAL") <=> (~allOk /\ ~noneWritten)
          /\ Get(uTheme.meta, "metricsLastError") = Str("") <=> st = Str("OK")

\* one mapped asset ended OK with returns written, another did not: PARTIAL
C30_Witness ==
    /\ uRun.pc = "done" /\ uRun.saved
    /\ Get(uTheme.meta, "metricsStatus") = Str("PARTIAL")
    /\ \E i \in MappedNodes, j \in MappedNodes :
          /\ AssetOk(i) /\ uRun.locals[i].wrote_any
          /\ ~AssetOk(j) /\ ~uRun.locals[j].wrote_any
====
